---- MODULE Spec2Model ----
(***************************************************************************)
(* The DA challenge guest program (crates/methods/guest) and the toolkit   *)
(* functions it calls (crates/toolkit), as a state machine.                *)
(*                                                                         *)
(* One run of the guest reads a DaChallengeGuestData bundle and the        *)
(* committed EVM state, runs check_da_challenge and either commits a       *)
(* journal or panics.  The bundle and the EVM state are the inputs: Init   *)
(* draws them from bounded sets, the actions are the successive blocks of  *)
(* check_da_challenge and of main.                                         *)
(*                                                                         *)
(* Integers are scaled: u32 (and usize on the 32-bit guest target) has     *)
(* U32Bits bits, so that checked_add overflow and the wrap of              *)
(* ods_width * ods_width happen on values TLC can enumerate.               *)
(*                                                                         *)
(* The host's BlobstreamEventCache (crates/cli) is a second state machine,  *)
(* SpecEventCache: tasks call get on one cache while the bridge's event    *)
(* log is any log of EventLogs.                                            *)
(*                                                                         *)
(* SpecHost is challenge_da_commitment (crates/cli): the host assembles    *)
(* the bundle from an honest Celestia node and the bridge's log, probes    *)
(* the bridge's height function, preflights the attestations and runs the  *)
(* guest on the result.  SpecPublish is _publish_single_blob               *)
(* (crates/test-toolkit), which derives a SpanSequence from a posted blob  *)
(* with eds_index_to_ods.                                                  *)
(*                                                                         *)
(* Cryptographic verification (the bridge contract's verifyAttestation,    *)
(* MerkleProof::verify, ShareProof::verify) is external to the repository: *)
(* each proof carries the boolean that the verification evaluates to.      *)
(***************************************************************************)
EXTENDS Integers, Sequences, FiniteSets, TLC

\* ---------------------------------------------------------------- bounds
\* Width of the scaled u32 / usize.
U32Bits == 5
\* Celestia block heights range over 0..MaxHeight.
MaxHeight == 3
\* Serialized tokens carried by one share (the scaled SHARE_SIZE payload).
ShareCapacity == 2

U32Modulus == 2 ^ U32Bits
U32Max == U32Modulus - 1
Heights == 0 .. MaxHeight

\* ------------------------------------------------------- Result values
\* Result<T, DaGuestError>, plus the panics raised inside check_da_challenge.
Ok == [kind |-> "Ok", err |-> "none", args |-> << >>]
OkVal(v) == [kind |-> "Ok", err |-> "none", args |-> <<v>>]
InputError(e) == [kind |-> "Input", err |-> e, args |-> << >>]
DaFraud(e, a) == [kind |-> "Fraud", err |-> e, args |-> a]
Panic(msg) == [kind |-> "Panic", err |-> msg, args |-> << >>]
NoResult == [kind |-> "None", err |-> "none", args |-> << >>]

\* Option<T>: None is the empty sequence, Some(x) is <<x>>.
None == << >>
Some(x) == <<x>>

\* ------------------------------------------------------------ toolkit
SpanSequence(h, s, n) == [height |-> h, start |-> s, size |-> n]
SpanArgs(span) == <<span.height, span.start, span.size>>

\* u32::checked_add: None when the sum does not fit.
checked_add(a, b) == IF a + b > U32Max THEN None ELSE Some(a + b)

end_index_ods_Unchecked(span) == OkVal((span.start + span.size) % U32Modulus)
end_index_ods_NoEmptyCheck(span) ==
    LET sum == checked_add(span.start, span.size) IN
    IF sum = None THEN DaFraud("SpanSequenceOverflow", SpanArgs(span))
    ELSE OkVal(sum[1])
\* SpanSequence::end_index_ods
end_index_ods(span) ==
    IF span.size = 0 THEN DaFraud("EmptySpanSequence", SpanArgs(span))
    ELSE LET sum == checked_add(span.start, span.size) IN
         IF sum = None THEN DaFraud("SpanSequenceOverflow", SpanArgs(span))
         ELSE OkVal(sum[1])

\* compute_ods_width_from_row_proof: total is a usize, the result a u32.
compute_ods_width_from_row_proof(row_proof) ==
    IF row_proof.total % 4 # 0 THEN InputError("InvalidNumberOfLeavesInProof")
    ELSE OkVal((row_proof.total \div 4) % U32Modulus)

verify_span_sequence_inclusion_Strict(span_sequence, row_proof) ==
    LET w == compute_ods_width_from_row_proof(row_proof) IN
    IF w.kind # "Ok" THEN w
    ELSE LET ods_size == (w.args[1] * w.args[1]) % U32Modulus
             last == end_index_ods(span_sequence) IN
         IF last.kind # "Ok" THEN last
         ELSE IF last.args[1] >= ods_size
              THEN DaFraud("ShareIndexOutOfBounds", <<last.args[1], ods_size>>)
              ELSE Ok
verify_span_sequence_inclusion_EndFirst(span_sequence, row_proof) ==
    LET last == end_index_ods(span_sequence) IN
    IF last.kind # "Ok" THEN last
    ELSE LET w == compute_ods_width_from_row_proof(row_proof) IN
         IF w.kind # "Ok" THEN w
         ELSE LET ods_size == (w.args[1] * w.args[1]) % U32Modulus IN
              IF last.args[1] > ods_size
              THEN DaFraud("ShareIndexOutOfBounds", <<last.args[1], ods_size>>)
              ELSE Ok
\* verify_span_sequence_inclusion: the u32 product ods_width * ods_width wraps.
verify_span_sequence_inclusion(span_sequence, row_proof) ==
    LET w == compute_ods_width_from_row_proof(row_proof) IN
    IF w.kind # "Ok" THEN w
    ELSE LET ods_size == (w.args[1] * w.args[1]) % U32Modulus
             last == end_index_ods(span_sequence) IN
         IF last.kind # "Ok" THEN last
         ELSE IF last.args[1] > ods_size
              THEN DaFraud("ShareIndexOutOfBounds", <<last.args[1], ods_size>>)
              ELSE Ok

\* share_proof_start_index_ods: row_index * (total / 4) + col_index, in u32.
share_proof_start_index_ods(share_proof) ==
    LET row_size == (share_proof.row_total % U32Modulus) \div 4
        row_index == share_proof.row_index % U32Modulus
        col_index == share_proof.col_start
    IN (row_index * row_size + col_index) % U32Modulus

\* The keys of a BTreeMap in iteration (ascending) order.
RECURSIVE SortedKeys(_)
SortedKeys(keys) ==
    IF keys = {} THEN << >>
    ELSE LET k == CHOOSE x \in keys : \A y \in keys : x <= y
         IN <<k>> \o SortedKeys(keys \ {k})

RECURSIVE FlatMapShares(_, _)
FlatMapShares(share_proofs, keys) ==
    IF keys = << >> THEN << >>
    ELSE share_proofs[Head(keys)].shares \o FlatMapShares(share_proofs, Tail(keys))

\* BlobProofData::shares: every share of every entry of share_proofs, in key order.
BlobProofData_shares(blob_proof_data) ==
    FlatMapShares(blob_proof_data.share_proofs,
                  SortedKeys(DOMAIN blob_proof_data.share_proofs))

\* ---------------------------------------------- shares and their payload
\* The payload of a blob is a sequence of tokens; a share carries at most
\* ShareCapacity of them.  The first share of a blob is its sequence start and
\* carries the blob's length.
LenTok(n) == [tag |-> "len", n |-> n, span |-> SpanSequence(0, 0, 0)]
SpanTok(s) == [tag |-> "span", n |-> 0, span |-> s]

\* bincode::serialize of BlobIndex { blobs }: length prefix, then the entries.
bincode_serialize(blobs) ==
    <<LenTok(Len(blobs))>> \o [i \in 1 .. Len(blobs) |-> SpanTok(blobs[i])]

\* bincode::deserialize::<BlobIndex>: trailing data is accepted.
bincode_deserialize(data) ==
    IF Len(data) = 0 \/ data[1].tag # "len"
    THEN DaFraud("FailedIndexBlobDeserialization", << >>)
    ELSE LET n == data[1].n IN
         IF Len(data) < n + 1 \/ \E i \in 2 .. n + 1 : data[i].tag # "span"
         THEN DaFraud("FailedIndexBlobDeserialization", << >>)
         ELSE OkVal([i \in 1 .. n |-> data[i + 1].span])

shares_needed_for_blob(blob_len) ==
    IF blob_len = 0 THEN 1
    ELSE (blob_len + ShareCapacity - 1) \div ShareCapacity

RECURSIVE ConcatData(_, _)
ConcatData(shares, n) ==
    IF n = 0 THEN << >> ELSE ConcatData(shares, n - 1) \o shares[n].data

\* Blob::reconstruct (celestia_types): the first share must start a sequence
\* and gives the blob's length; as many shares as that length needs are read,
\* none of the others may start a sequence; shares after them are not read.
Blob_reconstruct(shares) ==
    IF Len(shares) = 0 THEN DaFraud("FailedIndexBlobReconstruction", << >>)
    ELSE IF ~shares[1].sequence_start
    THEN DaFraud("FailedIndexBlobReconstruction", << >>)
    ELSE LET needed == shares_needed_for_blob(shares[1].sequence_len) IN
         IF Len(shares) < needed
         THEN DaFraud("FailedIndexBlobReconstruction", << >>)
         ELSE IF \E i \in 2 .. needed : shares[i].sequence_start
         THEN DaFraud("FailedIndexBlobReconstruction", << >>)
         ELSE LET data == ConcatData(shares, needed) IN
              \* Vec::truncate keeps a shorter vector as it is
              IF Len(data) <= shares[1].sequence_len THEN OkVal(data)
              ELSE OkVal(SubSeq(data, 1, shares[1].sequence_len))

\* BlobIndex::reconstruct_from_raw
reconstruct_from_raw(raw_shares) ==
    LET index_blob_ == Blob_reconstruct(raw_shares) IN
    IF index_blob_.kind # "Ok" THEN index_blob_
    ELSE bincode_deserialize(index_blob_.args[1])

\* AppVersion::from_u64
AppVersion_from_u64(v) == IF v = "V2" THEN Some(v) ELSE None

\* -------------------------------------------------------------- guest
\* The bridge contract's verifyAttestation view call on committed EVM state.
verifyAttestation(blobstream_attestation) == blobstream_attestation.attested

\* verify_blobstream_attestation: makes the view call and discards the value it
\* returns; the function always returns normally.
verify_blobstream_attestation(blobstream_attestation) ==
    LET _blobstream_return == verifyAttestation(blobstream_attestation) IN Ok

verify_blobstream_attestation_and_row_proof_NoRowProof(block_proof) ==
    verify_blobstream_attestation(block_proof.blobstream_attestation)
\* verify_blobstream_attestation_and_row_proof on one block proof.
verify_blobstream_attestation_and_row_proof(block_proof) ==
    IF verify_blobstream_attestation(block_proof.blobstream_attestation).kind # "Ok"
    THEN verify_blobstream_attestation(block_proof.blobstream_attestation)
    ELSE IF ~block_proof.row_proof.verifies
    THEN Panic("failed to verify row proof")
    ELSE Ok

RECURSIVE verify_block_proofs_from_NoKeyCheck(_, _)
verify_block_proofs_from_NoKeyCheck(block_proofs, keys) ==
    IF keys = << >> THEN Ok
    ELSE LET r == verify_blobstream_attestation_and_row_proof(block_proofs[Head(keys)]) IN
         IF r.kind # "Ok" THEN r
         ELSE verify_block_proofs_from_NoKeyCheck(block_proofs, Tail(keys))
\* The loop of check_da_challenge over block_proofs, in key order.
RECURSIVE verify_block_proofs_from(_, _)
verify_block_proofs_from(block_proofs, keys) ==
    IF keys = << >> THEN Ok
    ELSE LET block_height == Head(keys)
             block_proof == block_proofs[block_height] IN
         IF block_height # block_proof.blobstream_attestation.height
         THEN Panic("invalid block height")
         ELSE LET r == verify_blobstream_attestation_and_row_proof(block_proof) IN
              IF r.kind # "Ok" THEN r
              ELSE verify_block_proofs_from(block_proofs, Tail(keys))

verify_block_proofs(block_proofs) ==
    verify_block_proofs_from(block_proofs, SortedKeys(DOMAIN block_proofs))

\* A view call on the bridge contract: verifyAttestation for an attestation, or
\* latestHeight.
NoAttestation == [height |-> 0, nonce |-> 0, proof_index |-> 0, attested |-> FALSE]
VerifyAttestationCall(blobstream_attestation) ==
    [call |-> "verifyAttestation", attestation |-> blobstream_attestation]
LatestHeightCall == [call |-> "latestHeight", attestation |-> NoAttestation]

\* The view calls the loop over block_proofs makes until it ends or panics: for
\* each entry the height assertion, then verifyAttestation, then the row proof.
RECURSIVE verify_block_proofs_calls_from(_, _)
verify_block_proofs_calls_from(block_proofs, keys) ==
    IF keys = << >> THEN << >>
    ELSE LET block_height == Head(keys)
             block_proof == block_proofs[block_height] IN
         IF block_height # block_proof.blobstream_attestation.height THEN << >>
         ELSE <<VerifyAttestationCall(block_proof.blobstream_attestation)>>
              \o (IF ~block_proof.row_proof.verifies THEN << >>
                  ELSE verify_block_proofs_calls_from(block_proofs, Tail(keys)))

verify_block_proofs_calls(block_proofs) ==
    verify_block_proofs_calls_from(block_proofs, SortedKeys(DOMAIN block_proofs))

verify_share_proofs_NoIndexCheck(span_sequence, blob_proof_data) ==
    LET span_sequence_end == end_index_ods(span_sequence) IN
    IF span_sequence_end.kind # "Ok" THEN span_sequence_end
    ELSE LET sp == blob_proof_data.share_proofs
             range == span_sequence.start .. span_sequence_end.args[1] - 1
             failing == {i \in range : i \notin DOMAIN sp \/ ~sp[i].verifies}
         IN IF failing = {} THEN Ok
            ELSE LET i == CHOOSE x \in failing : \A y \in failing : x <= y IN
                 IF i \notin DOMAIN sp THEN Panic("no share proof for key")
                 ELSE Panic("failed to verify share proof")
\* verify_share_proofs: for each index of the span, the lookup of the proof, its
\* verification, and the test of its start index.
verify_share_proofs(span_sequence, blob_proof_data) ==
    LET span_sequence_end == end_index_ods(span_sequence) IN
    IF span_sequence_end.kind # "Ok" THEN span_sequence_end
    ELSE LET sp == blob_proof_data.share_proofs
             range == span_sequence.start .. span_sequence_end.args[1] - 1
             failing == {i \in range :
                            \/ i \notin DOMAIN sp
                            \/ ~sp[i].verifies
                            \/ share_proof_start_index_ods(sp[i]) # i}
         IN IF failing = {} THEN Ok
            ELSE LET i == CHOOSE x \in failing : \A y \in failing : x <= y IN
                 IF i \notin DOMAIN sp THEN Panic("no share proof for key")
                 ELSE IF ~sp[i].verifies THEN Panic("failed to verify share proof")
                 ELSE Panic("invalid share proof start index")

check_block_height_bounds_HeightFirst(span_sequence, first_attestation, max_block_height) ==
    LET min_block_height == first_attestation.height IN
    IF span_sequence.height < min_block_height
    THEN DaFraud("BlockHeightTooLow", <<span_sequence.height, min_block_height>>)
    ELSE IF span_sequence.height > max_block_height
    THEN DaFraud("BlockHeightTooLow", <<span_sequence.height, min_block_height>>)
    ELSE IF first_attestation.nonce # 1
    THEN InputError("InvalidFirstBlobstreamAttestationNonce")
    ELSE IF first_attestation.proof_index # 0
    THEN InputError("InvalidFirstBlobstreamAttestationIndex")
    ELSE Ok
\* check_block_height_bounds; max_block_height is get_current_blobstream_height().
check_block_height_bounds(span_sequence, first_attestation, max_block_height) ==
    IF first_attestation.nonce # 1
    THEN InputError("InvalidFirstBlobstreamAttestationNonce")
    ELSE IF first_attestation.proof_index # 0
    THEN InputError("InvalidFirstBlobstreamAttestationIndex")
    ELSE IF verify_blobstream_attestation(first_attestation).kind # "Ok"
    THEN verify_blobstream_attestation(first_attestation)
    ELSE LET min_block_height == first_attestation.height IN
         IF span_sequence.height < min_block_height
         THEN DaFraud("BlockHeightTooLow", <<span_sequence.height, min_block_height>>)
         ELSE IF span_sequence.height > max_block_height
         THEN DaFraud("BlockHeightTooLow", <<span_sequence.height, min_block_height>>)
         ELSE Ok

\* The view calls check_block_height_bounds makes.
check_block_height_bounds_calls(span_sequence, first_attestation) ==
    IF first_attestation.nonce # 1 \/ first_attestation.proof_index # 0 THEN << >>
    ELSE <<VerifyAttestationCall(first_attestation)>>
         \o (IF span_sequence.height < first_attestation.height THEN << >>
             ELSE <<LatestHeightCall>>)

\* get_current_blobstream_height: the guest calls latestHeight() whatever the
\* bridge; on a contract without that function the call fails and the guest
\* panics.  r is what the step returns when the call is answered.
get_current_blobstream_height(r, calls, functions) ==
    IF (\E i \in 1 .. Len(calls) : calls[i] = LatestHeightCall)
       /\ "latestHeight" \notin functions
    THEN Panic("view call failed")
    ELSE r

check_span_exclusion_LookupFirst(span_sequence, proofs, first_attestation, max_block_height) ==
    IF span_sequence.height \notin DOMAIN proofs
    THEN Panic("no block proof for key")
    ELSE LET b == check_block_height_bounds(span_sequence, first_attestation, max_block_height) IN
         IF b.kind # "Ok" THEN b
         ELSE verify_span_sequence_inclusion(span_sequence, proofs[span_sequence.height].row_proof)
\* check_block_height_bounds followed by verify_span_sequence_inclusion on the
\* block proof of the span's height (indexing a BTreeMap panics on a missing key).
check_span_exclusion(span_sequence, proofs, first_attestation, max_block_height) ==
    LET b == check_block_height_bounds(span_sequence, first_attestation, max_block_height) IN
    IF b.kind # "Ok" THEN b
    ELSE IF span_sequence.height \notin DOMAIN proofs
    THEN Panic("no block proof for key")
    ELSE verify_span_sequence_inclusion(span_sequence, proofs[span_sequence.height].row_proof)

\* ------------------------------------------------------------- inputs
BlobstreamAttestation(h, nonce, idx, attested) ==
    [height |-> h, nonce |-> nonce, proof_index |-> idx, attested |-> attested]

BlobstreamAttestationAndRowProof(att, total, verifies) ==
    [blobstream_attestation |-> att,
     row_proof |-> [total |-> total, verifies |-> verifies]]

\* The least ODS width whose square does not fit in u32.
OverflowWidth ==
    CHOOSE w \in 1 .. U32Modulus :
        w * w >= U32Modulus /\ \A v \in 1 .. w - 1 : v * v < U32Modulus

\* Leaf counts of row proofs: widths 1 and 2, a count that is no multiple of
\* 4, and the width whose square wraps.
RowTotals == {4, 8, 6, 4 * OverflowWidth}

FirstAttestations ==
    {a \in [height : {1, 2}, nonce : {1, 2}, proof_index : {0, 1}, attested : BOOLEAN] :
        a.attested \/ (a.nonce = 1 /\ a.proof_index = 0)}

LatestHeights == {MaxHeight - 1, MaxHeight}

SpanShapes == {0, 3, U32Max - 1, U32Max} \X {0, 1, 2}
Spans == {SpanSequence(h, sh[1], sh[2]) : h \in Heights, sh \in SpanShapes}

OtherHeight(h) == (h + 1) % (MaxHeight + 1)

GoodBlockProof(h, total) ==
    BlobstreamAttestationAndRowProof(BlobstreamAttestation(h, 2, 0, TRUE), total, TRUE)

\* A block proof stored under key h with one defect: an attestation for another
\* height, an attestation the bridge does not confirm, a row proof that fails.
DefectiveBlockProofs(h) ==
    { BlobstreamAttestationAndRowProof(BlobstreamAttestation(OtherHeight(h), 2, 0, TRUE), 8, TRUE),
      BlobstreamAttestationAndRowProof(BlobstreamAttestation(h, 2, 0, FALSE), 8, TRUE),
      BlobstreamAttestationAndRowProof(BlobstreamAttestation(h, 2, 0, TRUE), 8, FALSE) }

BlockProofsFor(h) == {GoodBlockProof(h, t) : t \in RowTotals} \cup DefectiveBlockProofs(h)
SideBlockProofsFor(h) == {GoodBlockProof(h, 8)} \cup DefectiveBlockProofs(h)

EmptyMap == << >>

\* block_proofs maps around the height h that the engine dereferences.
BlockProofMaps(h) ==
    {EmptyMap}
    \cup {h :> e : e \in BlockProofsFor(h)}
    \cup {OtherHeight(h) :> e : e \in SideBlockProofsFor(OtherHeight(h))}
    \cup {(h :> GoodBlockProof(h, 8)) @@ (OtherHeight(h) :> e) :
            e \in SideBlockProofsFor(OtherHeight(h))}

\* ---- shares on chain
Share(seq_start, seq_len, data) ==
    [sequence_start |-> seq_start, sequence_len |-> seq_len, data |-> data]

\* A share of some other blob.
ForeignShare == Share(TRUE, 1, <<SpanTok(SpanSequence(0, 0, 0))>>)

\* The shares a payload is split into.
SplitIntoShares(tokens) ==
    [j \in 1 .. shares_needed_for_blob(Len(tokens)) |->
        Share(j = 1,
              IF j = 1 THEN Len(tokens) ELSE 0,
              SubSeq(tokens, (j - 1) * ShareCapacity + 1,
                     IF j * ShareCapacity < Len(tokens) THEN j * ShareCapacity ELSE Len(tokens)))]

\* The share at offset j (from 0) of a region that starts with the given shares
\* and is followed by other blobs.
ShareAtOffset(region, j) == IF j + 1 <= Len(region) THEN region[j + 1] ELSE ForeignShare

\* The width of the square the index blob's shares are proven in.
IndexSquareWidth == 2

\* A share proof for ODS index i carrying the given shares.
ShareProof(i, shares, verifies) ==
    [verifies |-> verifies,
     row_total |-> 4 * IndexSquareWidth,
     row_index |-> i \div IndexSquareWidth,
     col_start |-> i % IndexSquareWidth,
     shares |-> shares]

HonestShareProofs(region, start, keys) ==
    [i \in keys |-> ShareProof(i, <<ShareAtOffset(region, i - start)>>, TRUE)]

\* The share_proofs maps offered for the span [start, start + size): the exact
\* cover, and the cover with one change.
ShareProofMaps(region, start, size) ==
    LET range == start .. start + size - 1
        exact == HonestShareProofs(region, start, range) IN
    {exact}
    \cup {exact @@ (k :> ShareProof(k, <<Share(FALSE, 0, << >>)>>, FALSE)) :
            k \in {start - 1, start + size} \cap (0 .. U32Max)}
    \cup {HonestShareProofs(region, start, range \ {k}) : k \in {start + size - 1} \cap range}
    \cup {[exact EXCEPT ![k].verifies = FALSE] : k \in {start} \cap range}
    \cup {[exact EXCEPT ![k].col_start = (@ + 1) % IndexSquareWidth] : k \in {start} \cap range}
    \cup {[exact EXCEPT ![k].shares = @ \o <<ShareAtOffset(region, 1)>>] : k \in {start} \cap range}

\* What the shares at the index blob's position hold: a serialized BlobIndex, or
\* data that is none.
IndexLists(c) ==
    { << >>, <<c>>, [i \in 1 .. ShareCapacity |-> c],
      <<[c EXCEPT !.size = (c.size + 1) % U32Modulus]>>,
      <<[c EXCEPT !.height = OtherHeight(c.height)]>>,
      <<[c EXCEPT !.start = c.start - 1]>>,
      <<[c EXCEPT !.start = c.start - 1, !.size = c.size + 1]>>,
      <<[c EXCEPT !.start = c.start - 1], c>> }

IndexRegions(c) ==
    {SplitIntoShares(bincode_serialize(l)) : l \in IndexLists(c)}
    \cup { SplitIntoShares(<<SpanTok(c)>>),
           SplitIntoShares(<<LenTok(2), SpanTok(c)>>),
           <<Share(FALSE, 0, bincode_serialize(<<c>>))>> }

BlobProofData(share_proofs, app_version) ==
    [share_proofs |-> share_proofs, app_version |-> app_version]

\* -------------------------------------------------------------- state
VARIABLES
    index_blob,                    \* DaChallengeGuestData.index_blob
    challenged_blob,               \* DaChallengeGuestData.challenged_blob
    index_blob_proof_data,         \* Option<BlobProofData>
    block_proofs,                  \* BTreeMap<u64, BlobstreamAttestationAndRowProof>
    first_blobstream_attestation,  \* DaChallengeGuestData.first_blobstream_attestation
    latest_height,                 \* latestHeight() of the bridge in the committed EVM state
    pc,                            \* position of the guest in main / check_da_challenge
    result,                        \* what check_da_challenge returned
    index,                         \* the reconstructed BlobIndex.blobs
    panic_msg,                     \* message of the panic that ended the guest
    journal,                       \* what env::commit_slice published
    view_calls,                    \* the view calls the guest made on the bridge contract, in order
    bridge_events,                 \* the DataCommitmentStored events find_data_commitment can return
    event_cache,                   \* BlobstreamEventCache.event_cache, a RangeMap
    borrower,                      \* the task holding the &mut borrow of the cache
    get_pc,                        \* position of each task in BlobstreamEventCache::get
    get_height,                    \* block_height of each task's call
    get_seen,                      \* what event_cache.get(&block_height) gave at the test
    get_event,                     \* the event find_data_commitment returned to each task
    get_lookups,                   \* find_data_commitment calls made by each task's call
    get_result,                    \* what each task's call returned
    inserted,                      \* the events inserted into event_cache, in order
    bridge_functions,              \* the height functions the deployed bridge contract exposes
    celestia_head,                 \* height of celestia_client.header_local_head()
    chain_index,                   \* the shares on Celestia from the index blob's position on
    host_pc,                       \* position of the host in challenge_da_commitment
    fetch_attempts,                \* heights the host called fetch_block_proof for, in order
    probes,                        \* the height calls the host probed the bridge with, in order
    blobstream_impl,               \* the BlobstreamImpl the host detected
    preflighted,                   \* the view calls preflighted into the committed EVM state
    posted_blob,                   \* the blob Celestia returned to the publisher
    published_span                 \* the SpanSequence the publisher derived from it

bundle == <<index_blob, challenged_blob, index_blob_proof_data, block_proofs,
            first_blobstream_attestation>>
guest_vars == <<bundle, latest_height, pc, result, index, panic_msg, journal, view_calls>>
cache_vars == <<bridge_events, event_cache, borrower, get_pc, get_height, get_seen,
                get_event, get_lookups, get_result, inserted>>
publish_vars == <<posted_blob, published_span>>
host_vars == <<bridge_functions, celestia_head, chain_index, host_pc, fetch_attempts,
               probes, blobstream_impl, preflighted, publish_vars>>
vars == <<guest_vars, cache_vars, host_vars>>

\* The index blob is challenged itself: every span shape, every anchor, the
\* block proofs around its height.
InitDirect ==
    /\ index_blob \in Spans
    /\ challenged_blob = index_blob
    /\ index_blob_proof_data = None
    /\ block_proofs \in BlockProofMaps(index_blob.height)
    /\ first_blobstream_attestation \in FirstAttestations
    /\ latest_height \in LatestHeights

\* A blob of the index is challenged, the focus is on reading the index.
IndexSpansToRead ==
    {SpanSequence(h, sh[1], sh[2]) :
        h \in {0, 2}, sh \in {<<0, 1>>, <<1, 1>>, <<1, 2>>, <<0, 0>>, <<U32Max, 1>>}}

ChallengedInIndex == {SpanSequence(2, 3, 1), SpanSequence(MaxHeight, 3, 2)}

InitReadIndex ==
    /\ index_blob \in IndexSpansToRead
    /\ challenged_blob \in ChallengedInIndex
    /\ \E region \in IndexRegions(challenged_blob) :
         index_blob_proof_data \in
            {None}
            \cup {Some(BlobProofData(sp, "V2")) :
                    sp \in ShareProofMaps(region, index_blob.start, index_blob.size)}
            \cup {Some(BlobProofData(
                    HonestShareProofs(region, index_blob.start,
                        index_blob.start .. index_blob.start + index_blob.size - 1),
                    "V0"))}
    /\ block_proofs \in
         { EmptyMap,
           index_blob.height :> GoodBlockProof(index_blob.height, 8),
           (index_blob.height :> GoodBlockProof(index_blob.height, 8))
              @@ (challenged_blob.height :> GoodBlockProof(challenged_blob.height, 8)) }
         \cup {index_blob.height :> e : e \in DefectiveBlockProofs(index_blob.height)}
    /\ first_blobstream_attestation \in
         {BlobstreamAttestation(1, 1, 0, TRUE), BlobstreamAttestation(2, 2, 0, TRUE)}
    /\ latest_height \in LatestHeights

\* A blob listed in a readable index is challenged: every span shape and
\* height of the challenged blob, every anchor, the block proofs of its height.
InitBlobInIndex ==
    /\ index_blob = SpanSequence(2, 0, 1)
    /\ challenged_blob \in Spans \ {index_blob}
    /\ index_blob_proof_data =
         Some(BlobProofData(
            HonestShareProofs(SplitIntoShares(bincode_serialize(<<challenged_blob>>)),
                              index_blob.start, {index_blob.start}),
            "V2"))
    /\ block_proofs \in
         {(index_blob.height :> GoodBlockProof(index_blob.height, 8))}
         \cup {(challenged_blob.height :> e) @@ (index_blob.height :> GoodBlockProof(index_blob.height, 8)) :
                 e \in BlockProofsFor(challenged_blob.height)}
    /\ first_blobstream_attestation \in FirstAttestations
    /\ latest_height \in LatestHeights

\* ------------------------------------------------------------ actions
\* Leave check_da_challenge with r: a panic ends the guest, anything else is
\* returned to main.
Leave(r) ==
    IF r.kind = "Panic"
    THEN /\ pc' = "panicked"
         /\ panic_msg' = r.err
         /\ result' = result
    ELSE /\ pc' = "returned"
         /\ result' = r
         /\ panic_msg' = panic_msg

\* check_da_challenge, the loop that authenticates every entry of block_proofs.
AuthenticateBlockProofs ==
    /\ pc = "start"
    /\ LET r == verify_block_proofs(block_proofs) IN
       IF r.kind = "Ok"
       THEN pc' = "authenticated" /\ UNCHANGED <<result, panic_msg>>
       ELSE Leave(r)
    /\ view_calls' = view_calls \o verify_block_proofs_calls(block_proofs)
    /\ UNCHANGED <<cache_vars, host_vars, bundle, latest_height, index, journal>>

\* check_da_challenge, challenged_blob == index_blob.
CheckIndexBlob ==
    /\ pc = "authenticated"
    /\ challenged_blob = index_blob
    /\ Leave(get_current_blobstream_height(
                check_span_exclusion(index_blob, block_proofs,
                                     first_blobstream_attestation, latest_height),
                check_block_height_bounds_calls(index_blob, first_blobstream_attestation),
                bridge_functions))
    /\ view_calls' = view_calls
         \o check_block_height_bounds_calls(index_blob, first_blobstream_attestation)
    /\ UNCHANGED <<cache_vars, host_vars, bundle, latest_height, index, journal>>

VerifyIndexShareProofs_LookupFirst ==
    /\ pc = "authenticated"
    /\ challenged_blob # index_blob
    /\ IF index_blob.height \notin DOMAIN block_proofs
       THEN Leave(Panic("no block proof for key"))
       ELSE IF index_blob_proof_data = None
       THEN Leave(InputError("MissingIndexBlobData"))
       ELSE LET r == verify_share_proofs(index_blob, index_blob_proof_data[1]) IN
            IF r.kind = "Ok"
            THEN pc' = "shares_verified" /\ UNCHANGED <<result, panic_msg>>
            ELSE Leave(r)
    /\ UNCHANGED <<cache_vars, host_vars, bundle, latest_height, index, journal, view_calls>>
\* check_da_challenge, from the index blob data to verify_share_proofs.
VerifyIndexShareProofs ==
    /\ pc = "authenticated"
    /\ challenged_blob # index_blob
    /\ IF index_blob_proof_data = None
       THEN Leave(InputError("MissingIndexBlobData"))
       ELSE IF index_blob.height \notin DOMAIN block_proofs
       THEN Leave(Panic("no block proof for key"))
       ELSE LET r == verify_share_proofs(index_blob, index_blob_proof_data[1]) IN
            IF r.kind = "Ok"
            THEN pc' = "shares_verified" /\ UNCHANGED <<result, panic_msg>>
            ELSE Leave(r)
    /\ UNCHANGED <<cache_vars, host_vars, bundle, latest_height, index, journal, view_calls>>

ReconstructIndex_ErrorAsInput ==
    /\ pc = "shares_verified"
    /\ LET index_blob_data == index_blob_proof_data[1] IN
       IF AppVersion_from_u64(index_blob_data.app_version) = None
       THEN Leave(Panic("invalid app version")) /\ index' = index
       ELSE LET r == reconstruct_from_raw(BlobProofData_shares(index_blob_data)) IN
            IF r.kind = "Ok"
            THEN /\ pc' = "index_read"
                 /\ index' = Some(r.args[1])
                 /\ UNCHANGED <<result, panic_msg>>
            ELSE Leave(InputError("ChallengedBlobNotInIndex")) /\ index' = index
    /\ UNCHANGED <<cache_vars, host_vars, bundle, latest_height, journal, view_calls>>
\* check_da_challenge, the app version and BlobIndex::reconstruct_from_raw.
ReconstructIndex ==
    /\ pc = "shares_verified"
    /\ LET index_blob_data == index_blob_proof_data[1] IN
       IF AppVersion_from_u64(index_blob_data.app_version) = None
       THEN Leave(Panic("invalid app version")) /\ index' = index
       ELSE LET r == reconstruct_from_raw(BlobProofData_shares(index_blob_data)) IN
            IF r.kind = "Ok"
            THEN /\ pc' = "index_read"
                 /\ index' = Some(r.args[1])
                 /\ UNCHANGED <<result, panic_msg>>
            ELSE Leave(r) /\ index' = index
    /\ UNCHANGED <<cache_vars, host_vars, bundle, latest_height, journal, view_calls>>

CheckBlobInIndex_PartialMatch ==
    /\ pc = "index_read"
    /\ LET blobs == index[1]
           Same(a, b) == a.height = b.height /\ a.start = b.start IN
       IF \E i \in 1 .. Len(blobs) : Same(blobs[i], challenged_blob)
       THEN LET i == CHOOSE j \in 1 .. Len(blobs) :
                       Same(blobs[j], challenged_blob)
                       /\ \A k \in 1 .. j - 1 : ~Same(blobs[k], challenged_blob)
            IN /\ Leave(get_current_blobstream_height(
                           check_span_exclusion(blobs[i], block_proofs,
                                                first_blobstream_attestation, latest_height),
                           check_block_height_bounds_calls(challenged_blob,
                                                           first_blobstream_attestation),
                           bridge_functions))
               /\ view_calls' = view_calls
                    \o check_block_height_bounds_calls(challenged_blob,
                                                       first_blobstream_attestation)
       ELSE /\ Leave(InputError("ChallengedBlobNotInIndex"))
            /\ view_calls' = view_calls
    /\ UNCHANGED <<cache_vars, host_vars, bundle, latest_height, index, journal>>
\* check_da_challenge, the search of the index for the challenged blob.
CheckBlobInIndex ==
    /\ pc = "index_read"
    /\ LET blobs == index[1] IN
       IF \E i \in 1 .. Len(blobs) : blobs[i] = challenged_blob
       THEN LET i == CHOOSE j \in 1 .. Len(blobs) :
                       blobs[j] = challenged_blob
                       /\ \A k \in 1 .. j - 1 : blobs[k] # challenged_blob
            IN /\ Leave(get_current_blobstream_height(
                           check_span_exclusion(blobs[i], block_proofs,
                                                first_blobstream_attestation, latest_height),
                           check_block_height_bounds_calls(challenged_blob,
                                                           first_blobstream_attestation),
                           bridge_functions))
               /\ view_calls' = view_calls
                    \o check_block_height_bounds_calls(challenged_blob,
                                                       first_blobstream_attestation)
       ELSE /\ Leave(InputError("ChallengedBlobNotInIndex"))
            /\ view_calls' = view_calls
    /\ UNCHANGED <<cache_vars, host_vars, bundle, latest_height, index, journal>>

\* The Journal value main builds.
Journal == [commitment |-> "evm_env.commitment", blobstreamAddress |-> "blobstream_address"]

MainFinish_CommitOnInput ==
    /\ pc = "returned"
    /\ IF result.kind = "Ok"
       THEN /\ pc' = "panicked"
            /\ panic_msg' = "the specified blob is available, DA challenge failed"
            /\ journal' = journal
       ELSE /\ pc' = "committed"
            /\ panic_msg' = panic_msg
            /\ journal' = Some(Journal)
    /\ UNCHANGED <<cache_vars, host_vars, bundle, latest_height, result, index, view_calls>>
\* main, the match on the result of check_da_challenge and the commit.
MainFinish ==
    /\ pc = "returned"
    /\ IF result.kind = "Ok"
       THEN /\ pc' = "panicked"
            /\ panic_msg' = "the specified blob is available, DA challenge failed"
            /\ journal' = journal
       ELSE IF result.kind = "Input"
       THEN /\ pc' = "panicked"
            /\ panic_msg' = "invalid input"
            /\ journal' = journal
       ELSE /\ pc' = "committed"
            /\ panic_msg' = panic_msg
            /\ journal' = Some(Journal)
    /\ UNCHANGED <<cache_vars, host_vars, bundle, latest_height, result, index, view_calls>>

\* ------------------------------------------- the host's event cache
\* Heights the host asks the cache for range over 0..MaxCacheHeight.
MaxCacheHeight == 2
\* Number of DataCommitmentStored events the bridge has emitted, at most.
MaxEvents == 2

CacheHeights == 0 .. MaxCacheHeight

\* SP1BlobstreamDataCommitmentStored: the block range [start_block, end_block)
\* of one data commitment.
DataCommitmentStored(start_block, end_block) ==
    [start_block |-> start_block, end_block |-> end_block]

\* The events a bridge may have emitted, one with an empty range among them.
Events ==
    {e \in {DataCommitmentStored(a, b) : a \in CacheHeights, b \in 1 .. MaxCacheHeight + 1} :
        e.start_block <= e.end_block}

EventLogs == {log \in SUBSET Events : Cardinality(log) <= MaxEvents}

\* The tasks that hold a reference to the cache.
Tasks == {"t1", "t2"}

NoEvent == DataCommitmentStored(0, 0)

\* Result<&SP1BlobstreamDataCommitmentStored, anyhow::Error> of get.
GetPending == [kind |-> "Pending", event |-> NoEvent]
GetOk(event) == [kind |-> "Ok", event |-> event]
GetErr == [kind |-> "Err", event |-> NoEvent]

RangeMap_get_Closed(map, key) ==
    IF \E e \in map : e.lo <= key /\ key <= e.hi
    THEN Some((CHOOSE e \in map : e.lo <= key /\ key <= e.hi).value)
    ELSE None
\* RangeMap::get: the value of the stored range that contains the key.
RangeMap_get(map, key) ==
    IF \E e \in map : e.lo <= key /\ key < e.hi
    THEN Some((CHOOSE e \in map : e.lo <= key /\ key < e.hi).value)
    ELSE None

\* RangeMap::insert of lo..hi (lo < hi): the parts of stored ranges that the new
\* range overlaps are removed, what is left of them stays.  (Touching ranges
\* with equal values would be merged; an event is only stored under its own
\* range, so none arise.)
RangeMap_insert(map, lo, hi, value) ==
    {[e EXCEPT !.hi = IF e.hi < lo THEN e.hi ELSE lo] : e \in {x \in map : x.lo < lo}}
    \cup {[e EXCEPT !.lo = IF e.lo > hi THEN e.lo ELSE hi] : e \in {x \in map : x.hi > hi}}
    \cup {[lo |-> lo, hi |-> hi, value |-> value]}

\* BlobstreamEventCache::new, and no call of get under way.
InitCache ==
    /\ event_cache = {}
    /\ borrower = None
    /\ get_pc = [t \in Tasks |-> "idle"]
    /\ get_height = [t \in Tasks |-> 0]
    /\ get_seen = [t \in Tasks |-> None]
    /\ get_event = [t \in Tasks |-> NoEvent]
    /\ get_lookups = [t \in Tasks |-> 0]
    /\ get_result = [t \in Tasks |-> GetPending]
    /\ inserted = << >>

\* A panic of one task ends the host.
HostPanicked == \E t \in Tasks : get_pc[t] = "panicked"

GetCall_AlwaysLookup(t, block_height) ==
    /\ ~HostPanicked
    /\ get_pc[t] = "idle"
    /\ borrower = None
    /\ borrower' = Some(t)
    /\ get_height' = [get_height EXCEPT ![t] = block_height]
    /\ get_seen' = [get_seen EXCEPT ![t] = RangeMap_get(event_cache, block_height)]
    /\ get_pc' = [get_pc EXCEPT ![t] = "lookup"]
    /\ get_event' = [get_event EXCEPT ![t] = NoEvent]
    /\ get_lookups' = [get_lookups EXCEPT ![t] = 0]
    /\ get_result' = [get_result EXCEPT ![t] = GetPending]
    /\ UNCHANGED <<guest_vars, host_vars, bridge_events, event_cache, inserted>>
GetCall_Shared(t, block_height) ==
    /\ ~HostPanicked
    /\ get_pc[t] = "idle"
    /\ borrower' = Some(t)
    /\ get_height' = [get_height EXCEPT ![t] = block_height]
    /\ get_seen' = [get_seen EXCEPT ![t] = RangeMap_get(event_cache, block_height)]
    /\ get_pc' = [get_pc EXCEPT ![t] =
                    IF RangeMap_get(event_cache, block_height) = None
                    THEN "lookup" ELSE "cached"]
    /\ get_event' = [get_event EXCEPT ![t] = NoEvent]
    /\ get_lookups' = [get_lookups EXCEPT ![t] = 0]
    /\ get_result' = [get_result EXCEPT ![t] = GetPending]
    /\ UNCHANGED <<guest_vars, host_vars, bridge_events, event_cache, inserted>>
\* get(&mut self, block_height): the call takes the exclusive borrow of the
\* cache and tests whether a stored range covers block_height.
GetCall(t, block_height) ==
    /\ ~HostPanicked
    /\ get_pc[t] = "idle"
    /\ borrower = None
    /\ borrower' = Some(t)
    /\ get_height' = [get_height EXCEPT ![t] = block_height]
    /\ get_seen' = [get_seen EXCEPT ![t] = RangeMap_get(event_cache, block_height)]
    /\ get_pc' = [get_pc EXCEPT ![t] =
                    IF RangeMap_get(event_cache, block_height) = None
                    THEN "lookup" ELSE "cached"]
    /\ get_event' = [get_event EXCEPT ![t] = NoEvent]
    /\ get_lookups' = [get_lookups EXCEPT ![t] = 0]
    /\ get_result' = [get_result EXCEPT ![t] = GetPending]
    /\ UNCHANGED <<guest_vars, host_vars, bridge_events, event_cache, inserted>>

\* get, find_data_commitment(...).await returns an event of the bridge.
FindDataCommitment(t) ==
    /\ ~HostPanicked
    /\ get_pc[t] = "lookup"
    /\ \E event \in bridge_events :
         get_event' = [get_event EXCEPT ![t] = event]
    /\ get_lookups' = [get_lookups EXCEPT ![t] = @ + 1]
    /\ get_pc' = [get_pc EXCEPT ![t] = "found"]
    /\ UNCHANGED <<guest_vars, host_vars, bridge_events, event_cache, borrower, get_height,
                   get_seen, get_result, inserted>>

\* get, find_data_commitment(...).await fails: map_err and ? return the error.
FindDataCommitmentFails(t) ==
    /\ ~HostPanicked
    /\ get_pc[t] = "lookup"
    /\ get_lookups' = [get_lookups EXCEPT ![t] = @ + 1]
    /\ get_result' = [get_result EXCEPT ![t] = GetErr]
    /\ get_pc' = [get_pc EXCEPT ![t] = "failed"]
    /\ borrower' = None
    /\ UNCHANGED <<guest_vars, host_vars, bridge_events, event_cache, get_height, get_seen,
                   get_event, inserted>>

GetInsert_Inclusive(t) ==
    /\ ~HostPanicked
    /\ get_pc[t] = "found"
    /\ LET event == get_event[t] IN
       IF event.start_block >= event.end_block + 1
       THEN /\ get_pc' = [get_pc EXCEPT ![t] = "panicked"]
            /\ UNCHANGED <<event_cache, inserted>>
       ELSE /\ event_cache' = RangeMap_insert(event_cache, event.start_block,
                                              event.end_block + 1, event)
            /\ inserted' = Append(inserted, event)
            /\ get_pc' = [get_pc EXCEPT ![t] = "cached"]
    /\ UNCHANGED <<guest_vars, host_vars, bridge_events, borrower, get_height, get_seen,
                   get_event, get_lookups, get_result>>
\* get, event_cache.insert(event.start_block..event.end_block, event);
\* RangeMap::insert panics on an empty range.
GetInsert(t) ==
    /\ ~HostPanicked
    /\ get_pc[t] = "found"
    /\ LET event == get_event[t] IN
       IF event.start_block >= event.end_block
       THEN /\ get_pc' = [get_pc EXCEPT ![t] = "panicked"]
            /\ UNCHANGED <<event_cache, inserted>>
       ELSE /\ event_cache' = RangeMap_insert(event_cache, event.start_block,
                                              event.end_block, event)
            /\ inserted' = Append(inserted, event)
            /\ get_pc' = [get_pc EXCEPT ![t] = "cached"]
    /\ UNCHANGED <<guest_vars, host_vars, bridge_events, borrower, get_height, get_seen,
                   get_event, get_lookups, get_result>>

\* get, the final event_cache.get(&block_height).expect(...): the reference
\* returned keeps the cache borrowed.
GetReturn(t) ==
    /\ ~HostPanicked
    /\ get_pc[t] = "cached"
    /\ LET found == RangeMap_get(event_cache, get_height[t]) IN
       IF found = None
       THEN /\ get_pc' = [get_pc EXCEPT ![t] = "panicked"]
            /\ get_result' = get_result
       ELSE /\ get_pc' = [get_pc EXCEPT ![t] = "holding"]
            /\ get_result' = [get_result EXCEPT ![t] = GetOk(found[1])]
    /\ UNCHANGED <<guest_vars, host_vars, bridge_events, event_cache, borrower, get_height,
                   get_seen, get_event, get_lookups, inserted>>

\* The caller is done with the returned event: the borrow ends, the caller goes
\* on to its next request.
DropEvent(t) ==
    /\ ~HostPanicked
    /\ get_pc[t] = "holding"
    /\ borrower' = None
    /\ get_pc' = [get_pc EXCEPT ![t] = "idle"]
    /\ get_height' = [get_height EXCEPT ![t] = 0]
    /\ get_seen' = [get_seen EXCEPT ![t] = None]
    /\ get_event' = [get_event EXCEPT ![t] = NoEvent]
    /\ get_lookups' = [get_lookups EXCEPT ![t] = 0]
    /\ get_result' = [get_result EXCEPT ![t] = GetPending]
    /\ UNCHANGED <<guest_vars, host_vars, bridge_events, event_cache, inserted>>

\* The caller of a get that failed goes on to its next request.
Resume(t) ==
    /\ ~HostPanicked
    /\ get_pc[t] = "failed"
    /\ get_pc' = [get_pc EXCEPT ![t] = "idle"]
    /\ get_height' = [get_height EXCEPT ![t] = 0]
    /\ get_seen' = [get_seen EXCEPT ![t] = None]
    /\ get_event' = [get_event EXCEPT ![t] = NoEvent]
    /\ get_lookups' = [get_lookups EXCEPT ![t] = 0]
    /\ get_result' = [get_result EXCEPT ![t] = GetPending]
    /\ UNCHANGED <<guest_vars, host_vars, bridge_events, event_cache, borrower, inserted>>

\* ------------------------------------ the host: building a challenge
\* SP1BlobstreamDataCommitmentStored.proof_nonce: the bridge numbers its data
\* commitments from 1, in the order of their ranges.
proof_nonce(event, events) ==
    1 + Cardinality({e \in events : e.start_block < event.start_block})

\* first_data_commitment_stored_event: the earliest event of the bridge.
first_data_commitment_stored_event(events) ==
    CHOOSE e \in events : \A o \in events : e.start_block <= o.start_block

\* find_data_commitment on the log of the bridge: the event whose range covers
\* the height, if the bridge has emitted one.
find_data_commitment(block_height, events) ==
    IF \E e \in events : e.start_block <= block_height /\ block_height < e.end_block
    THEN Some(CHOOSE e \in events :
                e.start_block <= block_height /\ block_height < e.end_block)
    ELSE None

\* BlobstreamEventCache::get as one call: the event, the cache after the call
\* and the event the call inserted, if any.
BlobstreamEventCache_get(cache, block_height, events) ==
    IF RangeMap_get(cache, block_height) # None
    THEN [kind |-> "Ok", event |-> RangeMap_get(cache, block_height)[1],
          cache |-> cache, inserted |-> << >>]
    ELSE LET found == find_data_commitment(block_height, events) IN
         IF found = None
         THEN [kind |-> "Err", event |-> NoEvent, cache |-> cache, inserted |-> << >>]
         ELSE [kind |-> "Ok", event |-> found[1],
               cache |-> RangeMap_insert(cache, found[1].start_block,
                                         found[1].end_block, found[1]),
               inserted |-> <<found[1]>>]

\* get_first_blobstream_attestation: the attestation of the first block of the
\* first event.
get_first_blobstream_attestation(events) ==
    LET first_blobstream_event == first_data_commitment_stored_event(events) IN
    BlobstreamAttestation(first_blobstream_event.start_block,
                          proof_nonce(first_blobstream_event, events), 0, TRUE)

NoBlockProof == BlobstreamAttestationAndRowProof(NoAttestation, 0, FALSE)

\* fetch_block_proof (with fetch_blobstream_attestation): the attestation of the
\* block under the event that covers it, and the proof of row 0 of its square.
fetch_block_proof(block_height, cache, events) ==
    LET got == BlobstreamEventCache_get(cache, block_height, events) IN
    IF got.kind # "Ok"
    THEN [kind |-> "Err", proof |-> NoBlockProof, cache |-> cache, inserted |-> << >>]
    ELSE [kind |-> "Ok",
          proof |-> BlobstreamAttestationAndRowProof(
                        BlobstreamAttestation(block_height,
                                              proof_nonce(got.event, events),
                                              block_height - got.event.start_block,
                                              TRUE),
                        4 * IndexSquareWidth, TRUE),
          cache |-> got.cache, inserted |-> got.inserted]

NoBlobProofData == BlobProofData(EmptyMap, "V2")

\* fetch_blob_proof_data: one share_get_range per ODS index of the span; the
\* node has no share outside the square.
fetch_blob_proof_data(span_sequence, region) ==
    LET span_sequence_end == end_index_ods(span_sequence) IN
    IF span_sequence_end.kind # "Ok"
    THEN [kind |-> "Err", data |-> NoBlobProofData]
    ELSE IF \E share_index \in span_sequence.start .. span_sequence_end.args[1] - 1 :
               share_index >= IndexSquareWidth * IndexSquareWidth
    THEN [kind |-> "Err", data |-> NoBlobProofData]
    ELSE [kind |-> "Ok",
          data |-> BlobProofData(
                      HonestShareProofs(region, span_sequence.start,
                          span_sequence.start .. span_sequence_end.args[1] - 1),
                      "V2")]

\* What fetch_da_challenge_guest_data hands back: Ok with the three fetched
\* fields of DaChallengeGuestData, or an error; with it the heights it called
\* fetch_block_proof for and the state it left the event cache in.
Fetched(data, proofs, first, attempts, cache, ins) ==
    [kind |-> "Ok", index_blob_proof_data |-> data, block_proofs |-> proofs,
     first_blobstream_attestation |-> first, attempts |-> attempts,
     cache |-> cache, inserted |-> ins]
FetchFailed(attempts, cache, ins) ==
    [kind |-> "Err", index_blob_proof_data |-> None, block_proofs |-> EmptyMap,
     first_blobstream_attestation |-> NoAttestation, attempts |-> attempts,
     cache |-> cache, inserted |-> ins]

\* fetch_da_challenge_guest_data
fetch_da_challenge_guest_data(i_blob, c_blob, celestia_height, events, region, cache) ==
    LET first == get_first_blobstream_attestation(events)
        OutOfWindow(h) == h < first.height \/ h > celestia_height
        index_block_proof == fetch_block_proof(i_blob.height, cache, events)
        proofs == i_blob.height :> index_block_proof.proof
        fetched_data == fetch_blob_proof_data(i_blob, region)
        read == reconstruct_from_raw(BlobProofData_shares(fetched_data.data))
        challenged_block_proof ==
            fetch_block_proof(c_blob.height, index_block_proof.cache, events)
    IN
    IF OutOfWindow(i_blob.height)
    THEN Fetched(None, EmptyMap, first, << >>, cache, << >>)
    ELSE IF index_block_proof.kind # "Ok"
    THEN FetchFailed(<<i_blob.height>>, cache, << >>)
    ELSE IF i_blob = c_blob
    THEN Fetched(None, proofs, first, <<i_blob.height>>,
                 index_block_proof.cache, index_block_proof.inserted)
    ELSE IF fetched_data.kind # "Ok"
    THEN FetchFailed(<<i_blob.height>>, index_block_proof.cache, index_block_proof.inserted)
    ELSE IF read.kind = "Ok"
            /\ ~OutOfWindow(c_blob.height)
            /\ \E i \in 1 .. Len(read.args[1]) : read.args[1][i] = c_blob
    THEN IF challenged_block_proof.kind # "Ok"
         THEN FetchFailed(<<i_blob.height, c_blob.height>>,
                          index_block_proof.cache, index_block_proof.inserted)
         ELSE Fetched(Some(fetched_data.data),
                      (c_blob.height :> challenged_block_proof.proof) @@ proofs,
                      first, <<i_blob.height, c_blob.height>>,
                      challenged_block_proof.cache,
                      index_block_proof.inserted \o challenged_block_proof.inserted)
    ELSE Fetched(Some(fetched_data.data), proofs, first, <<i_blob.height>>,
                 index_block_proof.cache, index_block_proof.inserted)

\* challenge_da_commitment, the call of fetch_da_challenge_guest_data: an error
\* ends the challenge.
FetchGuestData ==
    /\ host_pc = "fetch"
    /\ LET fetched == fetch_da_challenge_guest_data(index_blob, challenged_blob,
                          celestia_head, bridge_events, chain_index, event_cache) IN
       /\ fetch_attempts' = fetched.attempts
       /\ event_cache' = fetched.cache
       /\ inserted' = inserted \o fetched.inserted
       /\ IF fetched.kind = "Ok"
          THEN /\ index_blob_proof_data' = fetched.index_blob_proof_data
               /\ block_proofs' = fetched.block_proofs
               /\ first_blobstream_attestation' = fetched.first_blobstream_attestation
               /\ host_pc' = "probe_height"
          ELSE /\ host_pc' = "failed"
               /\ UNCHANGED <<index_blob_proof_data, block_proofs,
                              first_blobstream_attestation>>
    /\ UNCHANGED <<index_blob, challenged_blob, latest_height, pc, result, index,
                   panic_msg, journal, view_calls, bridge_events, borrower, get_pc,
                   get_height, get_seen, get_event, get_lookups, get_result,
                   bridge_functions, celestia_head, chain_index, probes,
                   blobstream_impl, preflighted, publish_vars>>

LatestBlockCall == [call |-> "latestBlock", attestation |-> NoAttestation]

ProbeLatestHeight_FallThrough ==
    /\ host_pc = "probe_height"
    /\ probes' = Append(probes, [call |-> "latestHeight",
                                 ok |-> "latestHeight" \in bridge_functions])
    /\ preflighted' = IF "latestHeight" \in bridge_functions
                      THEN preflighted \cup {LatestHeightCall} ELSE preflighted
    /\ blobstream_impl' = blobstream_impl
    /\ host_pc' = "probe_block"
    /\ UNCHANGED <<guest_vars, cache_vars, bridge_functions, celestia_head, chain_index,
                   fetch_attempts, publish_vars>>
\* perform_preflight_blobstream_height_call, the latestHeight() call: R0 when
\* the bridge answers it.
ProbeLatestHeight ==
    /\ host_pc = "probe_height"
    /\ probes' = Append(probes, [call |-> "latestHeight",
                                 ok |-> "latestHeight" \in bridge_functions])
    /\ IF "latestHeight" \in bridge_functions
       THEN /\ preflighted' = preflighted \cup {LatestHeightCall}
            /\ blobstream_impl' = Some("R0")
            /\ host_pc' = "preflight"
       ELSE /\ preflighted' = preflighted
            /\ blobstream_impl' = blobstream_impl
            /\ host_pc' = "probe_block"
    /\ UNCHANGED <<guest_vars, cache_vars, bridge_functions, celestia_head, chain_index,
                   fetch_attempts, publish_vars>>

\* perform_preflight_blobstream_height_call, the latestBlock() call: Sp1 when
\* the bridge answers it, an error otherwise.
ProbeLatestBlock ==
    /\ host_pc = "probe_block"
    /\ probes' = Append(probes, [call |-> "latestBlock",
                                 ok |-> "latestBlock" \in bridge_functions])
    /\ IF "latestBlock" \in bridge_functions
       THEN /\ preflighted' = preflighted \cup {LatestBlockCall}
            /\ blobstream_impl' = IF blobstream_impl = None THEN Some("Sp1")
                                  ELSE blobstream_impl
            /\ host_pc' = "preflight"
       ELSE /\ preflighted' = preflighted
            /\ blobstream_impl' = blobstream_impl
            /\ host_pc' = "failed"
    /\ UNCHANGED <<guest_vars, cache_vars, bridge_functions, celestia_head, chain_index,
                   fetch_attempts, publish_vars>>

RECURSIVE block_proof_attestations(_, _)
block_proof_attestations(proofs, keys) ==
    IF keys = << >> THEN << >>
    ELSE <<proofs[Head(keys)].blobstream_attestation>>
         \o block_proof_attestations(proofs, Tail(keys))

\* DaChallengeGuestData::blobstream_attestations: the first attestation, then
\* the attestation of every entry of block_proofs.
blobstream_attestations(first, proofs) ==
    <<first>> \o block_proof_attestations(proofs, SortedKeys(DOMAIN proofs))

\* perform_preflight_calls, the loop over blobstream_attestations.
PreflightAttestations ==
    /\ host_pc = "preflight"
    /\ LET atts == blobstream_attestations(first_blobstream_attestation, block_proofs) IN
       preflighted' = preflighted
                        \cup {VerifyAttestationCall(atts[i]) : i \in 1 .. Len(atts)}
    /\ host_pc' = "prove"
    /\ UNCHANGED <<guest_vars, cache_vars, bridge_functions, celestia_head, chain_index,
                   fetch_attempts, probes, blobstream_impl, publish_vars>>

\* challenge_da_commitment, the prover runs the guest on the bundle and on the
\* committed EVM state.
Prove ==
    /\ host_pc = "prove"
    /\ pc = "waiting"
    /\ pc' = "start"
    /\ host_pc' = "proving"
    /\ UNCHANGED <<bundle, latest_height, result, index, panic_msg, journal, view_calls,
                   cache_vars, bridge_functions, celestia_head, chain_index,
                   fetch_attempts, probes, blobstream_impl, preflighted, publish_vars>>

\* ---------------------------------------------------- the publisher
\* Squares have a width of 2^k shares, k at most MaxSquareLog.
MaxSquareLog == 2

RECURSIVE Pow2(_)
Pow2(k) == IF k = 0 THEN 1 ELSE 2 * Pow2(k - 1)

\* eds_index_to_ods
eds_index_to_ods(eds_index, eds_width) ==
    LET ods_width == eds_width \div 2 IN
    IF eds_index < ods_width THEN eds_index ELSE eds_index \div 2

\* What blob_get returns for a blob whose first share is the data share at row
\* r, column c of a square of the given ODS width: its index in the extended
\* square, row-major.
PostedBlob(height, r, c, shares_len, ods_width) ==
    [height |-> height, index |-> r * (2 * ods_width) + c, shares_len |-> shares_len,
     square_width |-> 2 * ods_width]

\* The data shares of a square: the cells of its top-left quadrant.
DataCells ==
    {cell \in (0 .. MaxSquareLog) \X (0 .. Pow2(MaxSquareLog) - 1)
                                  \X (0 .. Pow2(MaxSquareLog) - 1) :
        cell[2] < Pow2(cell[1]) /\ cell[3] < Pow2(cell[1])}

PostedBlobs ==
    {PostedBlob(h, cell[2], cell[3], n, Pow2(cell[1])) :
        h \in 1 .. MaxHeight, n \in 1 .. ShareCapacity, cell \in DataCells}

\* _publish_single_blob, from the posted blob to the SpanSequence.
PublishSingleBlob ==
    /\ posted_blob # None
    /\ published_span = None
    /\ LET eds_width == posted_blob[1].square_width % U32Modulus
           start == eds_index_to_ods(posted_blob[1].index % U32Modulus, eds_width) IN
       published_span' = Some(SpanSequence(posted_blob[1].height, start,
                                           posted_blob[1].shares_len % U32Modulus))
    /\ UNCHANGED <<guest_vars, cache_vars, bridge_functions, celestia_head, chain_index,
                   host_pc, fetch_attempts, probes, blobstream_impl, preflighted,
                   posted_blob>>

\* The publisher has posted nothing.
InitNotPublishing ==
    /\ posted_blob = None
    /\ published_span = None

\* The host is not building a challenge: the guest runs on a given bundle, on
\* the committed state of a bridge that answers latestHeight().
InitHostIdle ==
    /\ bridge_functions = {"latestHeight"}
    /\ celestia_head = MaxHeight
    /\ chain_index = << >>
    /\ host_pc = "idle"
    /\ fetch_attempts = << >>
    /\ probes = << >>
    /\ blobstream_impl = None
    /\ preflighted = {}
    /\ InitNotPublishing

\* The guest before main runs.
InitGuest ==
    /\ pc = "start"
    /\ result = NoResult
    /\ index = None
    /\ panic_msg = ""
    /\ journal = None
    /\ view_calls = << >>

Init ==
    /\ InitDirect \/ InitReadIndex \/ InitBlobInIndex
    /\ InitGuest
    /\ bridge_events = {}
    /\ InitCache
    /\ InitHostIdle

Next ==
    \/ AuthenticateBlockProofs
    \/ CheckIndexBlob
    \/ VerifyIndexShareProofs
    \/ ReconstructIndex
    \/ CheckBlobInIndex
    \/ MainFinish

Spec == Init /\ [][Next]_vars

\* The host's event cache on its own: the bridge's log is any of EventLogs, the
\* guest has not started.
InitEventCache ==
    /\ index_blob = SpanSequence(1, 0, 1)
    /\ challenged_blob = index_blob
    /\ index_blob_proof_data = None
    /\ block_proofs = EmptyMap
    /\ first_blobstream_attestation = BlobstreamAttestation(1, 1, 0, TRUE)
    /\ latest_height = MaxHeight
    /\ InitGuest
    /\ bridge_events \in EventLogs
    /\ InitCache
    /\ InitHostIdle

NextEventCache ==
    \/ \E t \in Tasks, block_height \in CacheHeights : GetCall(t, block_height)
    \/ \E t \in Tasks : FindDataCommitment(t)
    \/ \E t \in Tasks : FindDataCommitmentFails(t)
    \/ \E t \in Tasks : GetInsert(t)
    \/ \E t \in Tasks : GetReturn(t)
    \/ \E t \in Tasks : DropEvent(t)
    \/ \E t \in Tasks : Resume(t)

SpecEventCache == InitEventCache /\ [][NextEventCache]_vars

\* The host builds a challenge and proves it: the challenge it is asked for, the
\* Celestia chain and the bridge it finds.
HostIndexSpans ==
    {SpanSequence(h, sh[1], sh[2]) :
        h \in Heights, sh \in {<<0, 1>>, <<0, 2>>, <<3, 2>>, <<0, 0>>}}

HostChallenged(ib) == {ib} \cup {SpanSequence(h, 2, 1) : h \in Heights}

\* The log of a bridge that has attested the heights first .. head, in one or
\* two data commitments.
BridgeLogs(first, head) ==
    {{DataCommitmentStored(first, head + 1)}}
    \cup {{DataCommitmentStored(first, m), DataCommitmentStored(m, head + 1)} :
            m \in first + 1 .. head}

\* The bridge has attested the heights from its first event up to its head,
\* and its head is not ahead of the Celestia head the host's node reports.
InitHost ==
    /\ index_blob \in HostIndexSpans
    /\ challenged_blob \in HostChallenged(index_blob)
    /\ chain_index \in (IF challenged_blob = index_blob THEN {<< >>}
                        ELSE IndexRegions(challenged_blob))
    /\ celestia_head \in {MaxHeight - 1, MaxHeight}
    /\ latest_height \in 1 .. celestia_head
    /\ \E first \in {1, 2} :
         /\ first <= latest_height
         /\ bridge_events \in BridgeLogs(first, latest_height)
    /\ bridge_functions \in
         (IF challenged_blob = index_blob THEN SUBSET {"latestHeight", "latestBlock"}
          ELSE {{"latestHeight"}, {"latestBlock"}})
    /\ index_blob_proof_data = None
    /\ block_proofs = EmptyMap
    /\ first_blobstream_attestation = NoAttestation
    /\ pc = "waiting"
    /\ result = NoResult
    /\ index = None
    /\ panic_msg = ""
    /\ journal = None
    /\ view_calls = << >>
    /\ InitCache
    /\ host_pc = "fetch"
    /\ fetch_attempts = << >>
    /\ probes = << >>
    /\ blobstream_impl = None
    /\ preflighted = {}
    /\ InitNotPublishing

NextHost ==
    \/ FetchGuestData
    \/ ProbeLatestHeight
    \/ ProbeLatestBlock
    \/ PreflightAttestations
    \/ Prove
    \/ AuthenticateBlockProofs
    \/ CheckIndexBlob
    \/ VerifyIndexShareProofs
    \/ ReconstructIndex
    \/ CheckBlobInIndex
    \/ MainFinish

SpecHost == InitHost /\ [][NextHost]_vars

\* The publisher on its own: Celestia has stored the blob, the SpanSequence is
\* still to be derived.
InitPublish ==
    /\ index_blob = SpanSequence(1, 0, 1)
    /\ challenged_blob = index_blob
    /\ index_blob_proof_data = None
    /\ block_proofs = EmptyMap
    /\ first_blobstream_attestation = BlobstreamAttestation(1, 1, 0, TRUE)
    /\ latest_height = MaxHeight
    /\ InitGuest
    /\ bridge_events = {}
    /\ InitCache
    /\ bridge_functions = {"latestHeight"}
    /\ celestia_head = MaxHeight
    /\ chain_index = << >>
    /\ host_pc = "idle"
    /\ fetch_attempts = << >>
    /\ probes = << >>
    /\ blobstream_impl = None
    /\ preflighted = {}
    /\ posted_blob \in {Some(b) : b \in PostedBlobs}
    /\ published_span = None

NextPublish == PublishSingleBlob

SpecPublish == InitPublish /\ [][NextPublish]_vars

\* ------------------------------------------------------------- claims
\* The guest has ended: it committed a journal or it panicked.
Finished == pc \in {"committed", "panicked"}
\* check_da_challenge ran to its end, by a return or by a panic.
CheckEnded == pc \in {"returned", "committed", "panicked"}
DirectChallenge == challenged_blob = index_blob

BlockProofAuthentic(h) ==
    /\ block_proofs[h].blobstream_attestation.height = h
    /\ verifyAttestation(block_proofs[h].blobstream_attestation)
    /\ block_proofs[h].row_proof.verifies
AllBlockProofsAuthentic == \A h \in DOMAIN block_proofs : BlockProofAuthentic(h)

\* nonce 1, Merkle-proof index 0, confirmed by the bridge
ValidAnchor ==
    /\ first_blobstream_attestation.nonce = 1
    /\ first_blobstream_attestation.proof_index = 0
    /\ verifyAttestation(first_blobstream_attestation)

HeightInBounds(span) ==
    /\ first_blobstream_attestation.height <= span.height
    /\ span.height <= latest_height

\* C1: a journal is committed if and only if check_da_challenge returned a
\* Fraud error; after Ok(()) or an Input error the guest panics and no journal
\* is committed.
C1_JournalIffFraud ==
    /\ journal # None => (pc = "committed" /\ result.kind = "Fraud")
    /\ (Finished /\ result.kind = "Fraud") => (pc = "committed" /\ journal # None)
    /\ (Finished /\ result.kind \in {"Ok", "Input"}) => (pc = "panicked" /\ journal = None)
    /\ (pc = "panicked" /\ result.kind = "Ok")
          => panic_msg = "the specified blob is available, DA challenge failed"

C1_Witness == pc = "committed" /\ journal # None /\ result.kind = "Fraud"

\* The engine made the verifyAttestation call for the block proof stored under
\* h: the loop over block_proofs got as far as this entry's attestation.
BlockProofAttestationChecked(h) ==
    /\ pc # "start"
    /\ h \in DOMAIN block_proofs
    /\ block_proofs[h].blobstream_attestation.height = h
    /\ \A k \in DOMAIN block_proofs :
          k < h => (block_proofs[k].blobstream_attestation.height = k
                      /\ block_proofs[k].row_proof.verifies)

\* The engine made the verifyAttestation call for the first attestation: a
\* direct challenge reached check_block_height_bounds and passed the nonce and
\* index tests.
FirstAttestationChecked ==
    /\ DirectChallenge
    /\ CheckEnded
    /\ verify_block_proofs(block_proofs).kind = "Ok"
    /\ first_blobstream_attestation.nonce = 1
    /\ first_blobstream_attestation.proof_index = 0

\* C2: if verifyAttestation evaluates to false for an attestation the engine
\* checks, the attempt aborts: no fraud verdict, no 'available' result, no
\* journal.  (The code discards the value the call returns.)
C2_UnattestedAborts ==
    (\/ \E h \in DOMAIN block_proofs :
          /\ BlockProofAttestationChecked(h)
          /\ ~verifyAttestation(block_proofs[h].blobstream_attestation)
     \/ /\ FirstAttestationChecked
        /\ ~verifyAttestation(first_blobstream_attestation))
    => (pc = "panicked" /\ result = NoResult /\ journal = None)

\* reconstruct_from_raw was called on the index blob's shares.
IndexReconstructionRan ==
    \/ pc = "index_read"
    \/ index # None
    \/ result.err \in {"FailedIndexBlobReconstruction", "FailedIndexBlobDeserialization"}

\* C3: the shares the index is reconstructed from are exactly the shares at
\* ODS indices [start, start + size), one per verified proof: no share of an
\* entry outside the range and no further share of a proof that carries more
\* than one takes part.
C3_ReconstructsFromRangeOnly ==
    IndexReconstructionRan =>
        BlobProofData_shares(index_blob_proof_data[1])
          = [i \in 1 .. index_blob.size |->
               index_blob_proof_data[1].share_proofs[index_blob.start + i - 1].shares[1]]

\* C4: a direct challenge of a span with authentic block proofs, a first
\* attestation with nonce 1 and proof index 0, a height within
\* [first height, bridge head] and 0 < size, start + size <= ods_width^2
\* returns Ok(()).
C4_AvailableIndexBlob ==
    (/\ DirectChallenge
     /\ AllBlockProofsAuthentic
     /\ first_blobstream_attestation.nonce = 1
     /\ first_blobstream_attestation.proof_index = 0
     /\ HeightInBounds(index_blob)
     /\ index_blob.height \in DOMAIN block_proofs
     /\ block_proofs[index_blob.height].row_proof.total % 4 = 0
     /\ index_blob.size > 0
     /\ LET ods_width == block_proofs[index_blob.height].row_proof.total \div 4
        IN index_blob.start + index_blob.size <= ods_width * ods_width
     /\ Finished)
    => (/\ result = Ok
        /\ panic_msg = "the specified blob is available, DA challenge failed")

\* C5 as stated: a direct challenge of a span below the first attested height,
\* with a valid anchor, returns BlockHeightTooLow.
C5_TooLowWhateverTheProofs ==
    (/\ DirectChallenge
     /\ ValidAnchor
     /\ index_blob.height < first_blobstream_attestation.height
     /\ Finished)
    => result = DaFraud("BlockHeightTooLow",
                        <<index_blob.height, first_blobstream_attestation.height>>)

\* C5, amended: a direct challenge of a span below the first attested height,
\* with a valid anchor and a bundle whose block proofs all authenticate (none is
\* needed: block_proofs may be empty), returns BlockHeightTooLow; the block
\* proof of that height is never looked up.
C5_TooLowBeforeLookup ==
    (/\ DirectChallenge
     /\ ValidAnchor
     /\ AllBlockProofsAuthentic
     /\ index_blob.height < first_blobstream_attestation.height
     /\ Finished)
    => (/\ result = DaFraud("BlockHeightTooLow",
                            <<index_blob.height, first_blobstream_attestation.height>>)
        /\ pc = "committed")

C5_Witness ==
    /\ DirectChallenge
    /\ ValidAnchor
    /\ block_proofs = EmptyMap
    /\ index_blob.height < first_blobstream_attestation.height
    /\ pc = "committed"
    /\ result.err = "BlockHeightTooLow"

\* C6: a challenged span above the bridge's head height yields
\* BlockHeightTooHigh carrying the span's height and the bridge's max height.
C6_TooHighVerdict ==
    (/\ DirectChallenge
     /\ ValidAnchor
     /\ AllBlockProofsAuthentic
     /\ first_blobstream_attestation.height <= index_blob.height
     /\ index_blob.height > latest_height
     /\ Finished)
    => result = DaFraud("BlockHeightTooHigh", <<index_blob.height, latest_height>>)

\* The direct challenge reaches the inclusion check on an authentic row proof
\* with a leaf count of 4 * ods_width.
DirectInclusionChecked ==
    /\ DirectChallenge
    /\ AllBlockProofsAuthentic
    /\ ValidAnchor
    /\ HeightInBounds(index_blob)
    /\ index_blob.height \in DOMAIN block_proofs
    /\ block_proofs[index_blob.height].row_proof.total % 4 = 0
    /\ Finished

\* C7: directly challenged, a span whose end index exceeds ods_width^2 yields
\* ShareIndexOutOfBounds; a span whose end index equals ods_width^2 is not
\* reported out of bounds.
C7_OutOfSquare ==
    (/\ DirectInclusionChecked
     /\ end_index_ods(index_blob).kind = "Ok")
    => LET ods_width == block_proofs[index_blob.height].row_proof.total \div 4
           last == end_index_ods(index_blob).args[1] IN
       /\ last > ods_width * ods_width
            => (/\ result.kind = "Fraud"
                /\ result.err = "ShareIndexOutOfBounds"
                /\ result.args[1] = last
                /\ pc = "committed")
       /\ last = ods_width * ods_width => result = Ok

C7_Witness ==
    /\ DirectInclusionChecked
    /\ result.err = "ShareIndexOutOfBounds"
    /\ pc = "committed"

\* C8: end_index_ods reports EmptySpanSequence for a size-0 span whatever its
\* start, and a direct challenge of a size-0 span with a height in bounds and
\* authentic proofs yields the fraud outcome EmptySpanSequence, never Ok(()).
C8_EmptySpan ==
    /\ \A start \in 0 .. U32Max :
          end_index_ods(SpanSequence(index_blob.height, start, 0))
             = DaFraud("EmptySpanSequence", <<index_blob.height, start, 0>>)
    /\ (DirectInclusionChecked /\ index_blob.size = 0)
          => (/\ result = DaFraud("EmptySpanSequence", SpanArgs(index_blob))
              /\ pc = "committed")

C8_Witness ==
    /\ DirectInclusionChecked
    /\ index_blob.size = 0
    /\ index_blob.start > 0
    /\ result.err = "EmptySpanSequence"
    /\ pc = "committed"

\* verify_share_proofs ran its loop over the index span to the end.
IndexSharesVerified ==
    pc \in {"shares_verified", "index_read"} \/ IndexReconstructionRan

\* C9: for size > 0, end_index_ods is start + size when that fits in u32 and
\* SpanSequenceOverflow otherwise, never a wrapped value; the span-in-square
\* check and the loop over the share range use this value.
C9_CheckedEndIndex ==
    /\ \A span \in {index_blob, challenged_blob} :
          span.size > 0 =>
             end_index_ods(span) =
                IF span.start + span.size <= U32Max
                THEN OkVal(span.start + span.size)
                ELSE DaFraud("SpanSequenceOverflow", SpanArgs(span))
    /\ (DirectInclusionChecked /\ index_blob.size > 0) =>
          /\ index_blob.start + index_blob.size > U32Max
                => result = DaFraud("SpanSequenceOverflow", SpanArgs(index_blob))
          /\ result.err = "ShareIndexOutOfBounds"
                => result.args[1] = index_blob.start + index_blob.size
          /\ result = Ok => index_blob.start + index_blob.size <= U32Max
    /\ (~DirectChallenge /\ IndexSharesVerified) =>
          /\ index_blob.start + index_blob.size <= U32Max
          /\ \A i \in index_blob.start .. index_blob.start + index_blob.size - 1 :
                /\ i \in DOMAIN index_blob_proof_data[1].share_proofs
                /\ index_blob_proof_data[1].share_proofs[i].verifies
    /\ (/\ ~DirectChallenge
        /\ CheckEnded
        /\ index_blob_proof_data # None
        /\ index_blob.height \in DOMAIN block_proofs
        /\ AllBlockProofsAuthentic
        /\ index_blob.size > 0
        /\ index_blob.start + index_blob.size > U32Max)
          => result = DaFraud("SpanSequenceOverflow", SpanArgs(index_blob))

C9_Witness ==
    /\ DirectInclusionChecked
    /\ index_blob.size > 0
    /\ index_blob.start + index_blob.size > U32Max
    /\ result.err = "SpanSequenceOverflow"
    /\ pc = "committed"

\* The index span's share proofs verify and the index cannot be read from the
\* shares of the bundle.
IndexUnreadable ==
    /\ ~DirectChallenge
    /\ index_blob_proof_data # None
    /\ index_blob.height \in DOMAIN block_proofs
    /\ verify_block_proofs(block_proofs).kind = "Ok"
    /\ verify_share_proofs(index_blob, index_blob_proof_data[1]).kind = "Ok"
    /\ AppVersion_from_u64(index_blob_proof_data[1].app_version) # None
    /\ reconstruct_from_raw(BlobProofData_shares(index_blob_proof_data[1])).kind # "Ok"

\* C10: when a blob of the index is challenged, the index span's share proofs
\* verify and the index cannot be reconstructed or deserialized, the outcome is
\* the fraud FailedIndexBlobReconstruction or FailedIndexBlobDeserialization,
\* whatever the challenged blob, the first attestation and the block proofs of
\* the challenged height.
C10_UnreadableIndexIsFraud ==
    (IndexUnreadable /\ Finished)
    => (/\ result.kind = "Fraud"
        /\ result.err \in {"FailedIndexBlobReconstruction", "FailedIndexBlobDeserialization"}
        /\ pc = "committed"
        /\ journal # None)

C10_Witness ==
    /\ IndexUnreadable
    /\ pc = "committed"
    /\ first_blobstream_attestation.nonce # 1
    /\ challenged_blob.height \notin DOMAIN block_proofs
    /\ challenged_blob.height > latest_height

\* The index was reconstructed and one of its entries is the challenged blob.
ChallengedBlobListed ==
    /\ index # None
    /\ \E i \in 1 .. Len(index[1]) : index[1][i] = challenged_blob

\* C11: when the index reconstructs and none of its entries equals
\* challenged_blob in height, start and size, check_da_challenge returns
\* InputError::ChallengedBlobNotInIndex: no fraud outcome and no journal, also
\* when an entry overlaps challenged_blob or differs from it in one field.
C11_NotInIndexIsInputError ==
    (index # None /\ ~ChallengedBlobListed /\ CheckEnded)
    => (/\ result = InputError("ChallengedBlobNotInIndex")
        /\ journal = None
        /\ pc \in {"returned", "panicked"}
        /\ pc = "panicked" => panic_msg = "invalid input")

C11_Witness ==
    /\ index # None
    /\ \E i \in 1 .. Len(index[1]) :
          /\ index[1][i].height = challenged_blob.height
          /\ index[1][i].start < challenged_blob.start
          /\ index[1][i].start + index[1][i].size = challenged_blob.start + challenged_blob.size
    /\ ~ChallengedBlobListed
    /\ pc = "panicked"
    /\ result.err = "ChallengedBlobNotInIndex"

\* A blob listed in the index is challenged and the engine reaches the checks
\* on it with a valid anchor and an authentic block proof of its height whose
\* leaf count is 4 * ods_width.
ListedBlobChecked ==
    /\ ~DirectChallenge
    /\ ChallengedBlobListed
    /\ AllBlockProofsAuthentic
    /\ ValidAnchor
    /\ challenged_blob.height \in DOMAIN block_proofs
    /\ block_proofs[challenged_blob.height].row_proof.total % 4 = 0
    /\ Finished

\* C12: a challenged blob that equals an entry of the reconstructed index is
\* judged like a directly challenged one, on its own height and span and with
\* the block proof of its own height: in bounds and inside the square gives
\* Ok(()), an end index beyond the square or a height out of bounds gives a
\* fraud outcome.
C12_ListedBlobJudgedAsDirect ==
    ListedBlobChecked =>
        LET ods_width == block_proofs[challenged_blob.height].row_proof.total \div 4
            last == challenged_blob.start + challenged_blob.size IN
        /\ (HeightInBounds(challenged_blob) /\ challenged_blob.size > 0
                /\ last <= ods_width * ods_width)
              => result = Ok
        /\ (HeightInBounds(challenged_blob) /\ last > ods_width * ods_width)
              => (result.kind = "Fraud" /\ pc = "committed")
        /\ ~HeightInBounds(challenged_blob)
              => (result.kind = "Fraud" /\ pc = "committed")

\* C13 as stated: challenged_blob != index_blob and no index_blob_proof_data
\* gives InputError::MissingIndexBlobData, whatever else the bundle holds.
C13_MissingIndexDataWhateverTheProofs ==
    (~DirectChallenge /\ index_blob_proof_data = None /\ CheckEnded)
    => result = InputError("MissingIndexBlobData")

\* C13, amended: challenged_blob != index_blob, no index_blob_proof_data and
\* block proofs that all authenticate (block_proofs may be empty) give
\* InputError::MissingIndexBlobData, no fraud outcome and no journal, whatever
\* the heights and spans of the two blobs and whatever the first attestation.
C13_MissingIndexData ==
    (~DirectChallenge /\ index_blob_proof_data = None /\ AllBlockProofsAuthentic
        /\ CheckEnded)
    => (/\ result = InputError("MissingIndexBlobData")
        /\ journal = None
        /\ pc \in {"returned", "panicked"}
        /\ pc = "panicked" => panic_msg = "invalid input"
        /\ index = None)

C13_Witness ==
    /\ ~DirectChallenge
    /\ index_blob_proof_data = None
    /\ index_blob.height < first_blobstream_attestation.height
    /\ first_blobstream_attestation.nonce = 1
    /\ index_blob.height \notin DOMAIN block_proofs
    /\ result = InputError("MissingIndexBlobData")
    /\ pc = "panicked"

\* check_block_height_bounds was called: on the index blob of a direct
\* challenge, or on a challenged blob found in the index.
HeightBoundsEvaluated ==
    /\ CheckEnded
    /\ verify_block_proofs(block_proofs).kind = "Ok"
    /\ DirectChallenge \/ ChallengedBlobListed

\* The view calls made after the loop over block_proofs.
ViewCallsAfterLoop ==
    SubSeq(view_calls, Len(verify_block_proofs_calls(block_proofs)) + 1, Len(view_calls))

\* C14: whenever check_block_height_bounds runs, a first attestation with
\* nonce != 1 gives InvalidFirstBlobstreamAttestationNonce and one with nonce 1
\* and Merkle-proof index != 0 gives InvalidFirstBlobstreamAttestationIndex,
\* before the anchor is verified and before any height is compared or read: no
\* fraud verdict and no journal come from such an anchor.
C14_AnchorCheckedFirst ==
    /\ (HeightBoundsEvaluated /\ first_blobstream_attestation.nonce # 1)
          => (/\ result = InputError("InvalidFirstBlobstreamAttestationNonce")
              /\ ViewCallsAfterLoop = << >>
              /\ journal = None)
    /\ (HeightBoundsEvaluated /\ first_blobstream_attestation.nonce = 1
            /\ first_blobstream_attestation.proof_index # 0)
          => (/\ result = InputError("InvalidFirstBlobstreamAttestationIndex")
              /\ ViewCallsAfterLoop = << >>
              /\ journal = None)
    /\ ((first_blobstream_attestation.nonce # 1 \/ first_blobstream_attestation.proof_index # 0)
            /\ result.kind = "Fraud")
          => result.err \notin {"BlockHeightTooLow", "BlockHeightTooHigh"}

\* A degenerate anchor with the challenged height below it, for a direct
\* challenge and for a blob listed in the index.
C14_Witness ==
    /\ HeightBoundsEvaluated
    /\ ~DirectChallenge
    /\ first_blobstream_attestation.nonce = 1
    /\ first_blobstream_attestation.proof_index # 0
    /\ challenged_blob.height < first_blobstream_attestation.height
    /\ result = InputError("InvalidFirstBlobstreamAttestationIndex")
    /\ pc = "panicked"

\* The loop over block_proofs ended without a panic.
BlockProofsLoopPassed ==
    \/ pc \in {"authenticated", "shares_verified", "index_read", "returned", "committed"}
    \/ pc = "panicked" /\ panic_msg \notin {"invalid block height", "failed to verify row proof"}

\* The engine has gone beyond the loop: it made a view call for the height
\* bounds, read the index, returned, or published a journal.
BeyondBlockProofsLoop ==
    \/ ViewCallsAfterLoop # << >>
    \/ index # None
    \/ result # NoResult
    \/ journal # None
    \/ pc \in {"shares_verified", "index_read", "returned", "committed"}

\* Every entry went through the height assertion, the verifyAttestation call
\* and the row-proof verification, in key order.
EveryBlockProofWentThrough ==
    /\ \A h \in DOMAIN block_proofs :
          /\ block_proofs[h].blobstream_attestation.height = h
          /\ block_proofs[h].row_proof.verifies
    /\ Len(view_calls) >= Cardinality(DOMAIN block_proofs)
    /\ \A i \in 1 .. Cardinality(DOMAIN block_proofs) :
          view_calls[i] = VerifyAttestationCall(
              block_proofs[SortedKeys(DOMAIN block_proofs)[i]].blobstream_attestation)

\* C15: every entry of block_proofs goes through the attestation call and then
\* the row-proof verification before the engine evaluates height bounds, reads
\* index shares or returns anything; an entry whose row proof fails aborts the
\* attempt with no verdict, also when nothing else uses that entry's height.
C15_BlockProofsAuthenticatedFirst ==
    /\ (BlockProofsLoopPassed \/ BeyondBlockProofsLoop) => EveryBlockProofWentThrough
    /\ (pc # "start" /\ \E h \in DOMAIN block_proofs : ~block_proofs[h].row_proof.verifies)
          => (/\ pc = "panicked"
              /\ panic_msg \in {"invalid block height", "failed to verify row proof"}
              /\ result = NoResult
              /\ index = None
              /\ journal = None
              /\ ViewCallsAfterLoop = << >>)
    /\ (pc = "panicked" /\ panic_msg = "failed to verify row proof")
          => (/\ view_calls # << >>
              /\ \E h \in DOMAIN block_proofs :
                    /\ ~block_proofs[h].row_proof.verifies
                    /\ view_calls[Len(view_calls)]
                          = VerifyAttestationCall(block_proofs[h].blobstream_attestation))

\* The entry with the failing row proof is for a height the challenge does not
\* use; the entry of the challenged height is authentic.
C15_Witness ==
    /\ DirectChallenge
    /\ index_blob.height \in DOMAIN block_proofs
    /\ BlockProofAuthentic(index_blob.height)
    /\ \E h \in DOMAIN block_proofs :
          /\ h > index_blob.height
          /\ ~block_proofs[h].row_proof.verifies
    /\ ValidAnchor
    /\ HeightInBounds(index_blob)
    /\ pc = "panicked"
    /\ panic_msg = "failed to verify row proof"
    /\ Len(view_calls) = 2

\* The engine needs the index contents and gets as far as verify_share_proofs.
IndexShareProofsNeeded ==
    /\ ~DirectChallenge
    /\ index_blob_proof_data # None
    /\ verify_block_proofs(block_proofs).kind = "Ok"
    /\ index_blob.height \in DOMAIN block_proofs
    /\ CheckEnded

\* The ODS indices of the index span, and those without a valid aligned proof.
IndexShareRange ==
    {i \in index_blob.start .. index_blob.start + index_blob.size - 1 : i <= U32Max}

IndexSharesWithoutProof ==
    {i \in IndexShareRange :
        \/ i \notin DOMAIN index_blob_proof_data[1].share_proofs
        \/ ~index_blob_proof_data[1].share_proofs[i].verifies
        \/ LET p == index_blob_proof_data[1].share_proofs[i] IN
           p.row_index * (p.row_total \div 4) + p.col_start # i}

\* C16 as stated: a missing, invalid or misaligned share proof for an index of
\* [start, start + size) aborts the attempt and yields no fraud verdict.
C16_BadShareProofNeverFraud ==
    (IndexShareProofsNeeded /\ IndexSharesWithoutProof # {})
    => (pc = "panicked" /\ result.kind # "Fraud" /\ journal = None)

\* C16, amended: when start + size fits in u32, the engine requires for every
\* ODS index i of [start, start + size) a share proof keyed by i that verifies
\* under the attestation of index_blob.height and whose start index
\* row_index * ods_width + column start is i; a missing, invalid or misaligned
\* one aborts the attempt with no verdict and no journal.
C16_ShareProofPerIndex ==
    /\ (IndexShareProofsNeeded /\ end_index_ods(index_blob).kind = "Ok"
            /\ IndexSharesWithoutProof # {})
          => (/\ pc = "panicked"
              /\ panic_msg \in {"no share proof for key", "failed to verify share proof",
                                "invalid share proof start index"}
              /\ result = NoResult
              /\ index = None
              /\ journal = None)
    /\ (~DirectChallenge /\ IndexSharesVerified)
          => (/\ index_blob.height \in DOMAIN block_proofs
              /\ BlockProofAttestationChecked(index_blob.height)
              /\ end_index_ods(index_blob).kind = "Ok"
              /\ IndexSharesWithoutProof = {})

C16_Witness ==
    /\ IndexShareProofsNeeded
    /\ index_blob.size = 2
    /\ \A i \in IndexShareRange :
          /\ i \in DOMAIN index_blob_proof_data[1].share_proofs
          /\ index_blob_proof_data[1].share_proofs[i].verifies
    /\ IndexSharesWithoutProof # {}
    /\ pc = "panicked"
    /\ panic_msg = "invalid share proof start index"

\* C17: the journal committed on a fraud verdict holds the EVM state
\* commitment, the bridge contract address and the index-blob span descriptor,
\* equal to the bundle's index_blob.
C17_JournalBindsIndexBlob ==
    journal # None =>
        /\ DOMAIN journal[1] = {"commitment", "blobstreamAddress", "indexBlob"}
        /\ journal[1].commitment = "evm_env.commitment"
        /\ journal[1].blobstreamAddress = "blobstream_address"
        /\ journal[1].indexBlob = index_blob

\* ------------------------------------------------ claims on the event cache
\* The range an event is stored under by get.
EventEntry(event) ==
    [lo |-> event.start_block, hi |-> event.end_block, value |-> event]

\* C18: a get for a height that a cached interval covers makes no external
\* lookup and returns the cached event; a get for a height that none covers
\* makes exactly one lookup and inserts the event found under
\* [start_block, end_block).  A lookup is only under way for a height the
\* cache does not cover.
C18_LookupOnlyWhenUncovered ==
    \A t \in Tasks :
        /\ get_seen[t] # None
              => (/\ get_lookups[t] = 0
                  /\ get_pc[t] \in {"cached", "holding"}
                  /\ RangeMap_get(event_cache, get_height[t]) = get_seen[t]
                  /\ get_pc[t] = "holding" => get_result[t] = GetOk(get_seen[t][1]))
        /\ (get_pc[t] # "idle" /\ get_seen[t] = None)
              => (/\ get_lookups[t] = (IF get_pc[t] = "lookup" THEN 0 ELSE 1)
                  /\ get_pc[t] \in {"cached", "holding"}
                        => (/\ EventEntry(get_event[t]) \in event_cache
                            /\ inserted # << >>
                            /\ inserted[Len(inserted)] = get_event[t]))
        /\ get_pc[t] \in {"lookup", "found"}
              => RangeMap_get(event_cache, get_height[t]) = None
        /\ get_lookups[t] <= 1

\* A second get for a height of an interval cached by an earlier get returns
\* without a lookup.
C18_Witness ==
    \E t \in Tasks :
        /\ get_pc[t] = "holding"
        /\ get_seen[t] # None
        /\ get_lookups[t] = 0
        /\ Len(inserted) = 1
        /\ get_result[t] = GetOk(inserted[1])
        /\ get_height[t] > inserted[1].start_block

\* Two stored ranges, or two events, share a height.
RangesOverlap(lo1, hi1, lo2, hi2) ==
    (IF lo1 > lo2 THEN lo1 ELSE lo2) < (IF hi1 < hi2 THEN hi1 ELSE hi2)

CachedRangesDisjoint ==
    \A e1, e2 \in event_cache :
        e1 # e2 => ~RangesOverlap(e1.lo, e1.hi, e2.lo, e2.hi)

\* Every event inserted so far is still stored under its whole interval.
InsertedStillCached ==
    \A i \in 1 .. Len(inserted) :
        /\ EventEntry(inserted[i]) \in event_cache
        /\ \A h \in inserted[i].start_block .. inserted[i].end_block - 1 :
              RangeMap_get(event_cache, h) = Some(inserted[i])

\* The intervals of the bridge's events do not overlap one another.
BridgeEventsDisjoint ==
    \A e1, e2 \in bridge_events :
        e1 # e2 => ~RangesOverlap(e1.start_block, e1.end_block, e2.start_block, e2.end_block)

\* C19 as stated: whatever interval the lookup returns, the cached intervals
\* do not overlap and every interval inserted earlier is still cached, unchanged.
C19_AppendOnlyWhateverTheLookup ==
    CachedRangesDisjoint /\ InsertedStillCached

\* C19, amended: the cached intervals never overlap; when the intervals of the
\* events the lookup returns do not overlap one another, every interval
\* inserted earlier is still cached, unchanged.
C19_AppendOnly ==
    /\ CachedRangesDisjoint
    /\ BridgeEventsDisjoint => InsertedStillCached

C19_Witness ==
    /\ BridgeEventsDisjoint
    /\ Len(inserted) = 2
    /\ inserted[1] # inserted[2]
    /\ inserted[2].end_block = inserted[1].start_block
    /\ event_cache = {EventEntry(inserted[1]), EventEntry(inserted[2])}

\* The tasks inside get, or holding the event it returned.
TasksInGet == {t \in Tasks : get_pc[t] \in {"lookup", "found", "cached", "holding"}}

\* C20: gets on one cache are serialized.  At most one task is between the
\* call of get and the end of its use of the result, and it holds the borrow;
\* a task about to insert still finds its height uncovered, so two requests
\* for the same uncached interval cannot both insert it; an event a task
\* holds is stored in the cache and covers nothing half-inserted.
C20_GetsSerialized ==
    /\ Cardinality(TasksInGet) <= 1
    /\ \A t \in TasksInGet : borrower = Some(t)
    /\ (TasksInGet = {} /\ ~HostPanicked) => borrower = None
    /\ \A t \in Tasks :
          /\ get_pc[t] = "found" => RangeMap_get(event_cache, get_height[t]) = None
          /\ get_pc[t] = "holding"
                => (/\ RangeMap_get(event_cache, get_height[t]) = Some(get_result[t].event)
                    /\ \E i \in 1 .. Len(inserted) : inserted[i] = get_result[t].event)

\* One task is between its lookup and its insert while the other, whose last
\* get failed, has not started a new one.
C20_Witness ==
    \E t1, t2 \in Tasks :
        /\ t1 # t2
        /\ get_pc[t1] = "found"
        /\ get_pc[t2] = "failed"
        /\ get_height[t1] = get_height[t2]
        /\ borrower = Some(t1)
\* C25: for every entry of block_proofs that the loop lets through, the map key
\* equals the height inside the entry's attestation; an entry whose key differs
\* aborts the attempt before its attestation is sent to the bridge, so a span
\* at height h is judged with the entry of an attestation for height h.
C25_KeyIsAttestedHeight ==
    /\ (BlockProofsLoopPassed \/ BeyondBlockProofsLoop)
          => \A h \in DOMAIN block_proofs :
                block_proofs[h].blobstream_attestation.height = h
    /\ (pc # "start"
          /\ \E h \in DOMAIN block_proofs :
                block_proofs[h].blobstream_attestation.height # h)
          => (/\ pc = "panicked"
              /\ panic_msg \in {"invalid block height", "failed to verify row proof"}
              /\ result = NoResult
              /\ journal = None)
    /\ \A i \in 1 .. Len(view_calls) :
          (i <= Cardinality(DOMAIN block_proofs)
             /\ view_calls[i].call = "verifyAttestation")
          => view_calls[i].attestation.height = SortedKeys(DOMAIN block_proofs)[i]
    /\ (CheckEnded /\ result.kind \in {"Ok", "Fraud"}
          /\ challenged_blob.height \in DOMAIN block_proofs)
          => block_proofs[challenged_blob.height].blobstream_attestation.height
                = challenged_blob.height

\* The entry of the challenged height carries a confirmed attestation and a
\* valid row proof, but for another height.
C25_Witness ==
    /\ DirectChallenge
    /\ index_blob.height \in DOMAIN block_proofs
    /\ block_proofs[index_blob.height].blobstream_attestation.height # index_blob.height
    /\ verifyAttestation(block_proofs[index_blob.height].blobstream_attestation)
    /\ block_proofs[index_blob.height].row_proof.verifies
    /\ ValidAnchor
    /\ HeightInBounds(index_blob)
    /\ pc = "panicked"
    /\ panic_msg = "invalid block height"
    /\ view_calls = << >>

\* The direct challenge reaches the inclusion check on an authentic row proof
\* whose leaf count is no multiple of 4.
InvalidLeafCountChecked ==
    /\ DirectChallenge
    /\ AllBlockProofsAuthentic
    /\ ValidAnchor
    /\ HeightInBounds(index_blob)
    /\ index_blob.height \in DOMAIN block_proofs
    /\ block_proofs[index_blob.height].row_proof.total % 4 # 0
    /\ Finished

\* C26: compute_ods_width_from_row_proof returns InvalidNumberOfLeavesInProof
\* exactly when the leaf count is no multiple of 4 and total / 4 otherwise; a
\* span checked against a row proof with such a leaf count yields that input
\* error and no journal, also when the span is empty or its end overflows.
C26_InvalidLeafCountIsInputError ==
    /\ \A total \in 0 .. U32Max :
          compute_ods_width_from_row_proof([total |-> total, verifies |-> TRUE])
            = IF total % 4 # 0 THEN InputError("InvalidNumberOfLeavesInProof")
              ELSE OkVal(total \div 4)
    /\ InvalidLeafCountChecked
          => (/\ result = InputError("InvalidNumberOfLeavesInProof")
              /\ pc = "panicked"
              /\ journal = None)

\* An overflowing span on a row proof of 6 leaves.
C26_Witness ==
    /\ InvalidLeafCountChecked
    /\ checked_add(index_blob.start, index_blob.size) = None
    /\ result = InputError("InvalidNumberOfLeavesInProof")

\* The empty span on a row proof of 6 leaves.
C26_WitnessEmpty ==
    /\ InvalidLeafCountChecked
    /\ index_blob.size = 0
    /\ result = InputError("InvalidNumberOfLeavesInProof")

\* C30: for every row proof that passes the leaf-count check the bound ods_size
\* is the exact square of the ODS width: total / 4 fits in u32 and the product
\* does not wrap, so a span inside the real square is never reported out of
\* bounds.
C30_ExactSquare ==
    (/\ DirectInclusionChecked
     /\ end_index_ods(index_blob).kind = "Ok")
    => LET row_proof == block_proofs[index_blob.height].row_proof
           ods_width == row_proof.total \div 4 IN
       /\ compute_ods_width_from_row_proof(row_proof) = OkVal(ods_width)
       /\ end_index_ods(index_blob).args[1] <= ods_width * ods_width
            => result = Ok
       /\ result.err = "ShareIndexOutOfBounds"
            => result.args[2] = ods_width * ods_width

\* The interval of the event contains the height.
EventCovers(event, height) == event.start_block <= height /\ height < event.end_block

\* What get hands back: an event whose interval contains the requested height,
\* or an error when the lookup failed.
GetResultsSound ==
    \A t \in Tasks :
       /\ get_pc[t] = "holding"
            => (/\ get_result[t].kind = "Ok"
                /\ EventCovers(get_result[t].event, get_height[t]))
       /\ get_pc[t] = "failed"
            => (/\ get_result[t] = GetErr
                /\ get_seen[t] = None
                /\ get_event[t] = NoEvent)
       /\ get_result[t].kind = "Ok" => get_pc[t] = "holding"

\* A get that returns an error leaves the cache as it was.
ErrorLeavesCache ==
    (\E t \in Tasks : get_pc[t] = "lookup" /\ get_pc'[t] = "failed")
        => (event_cache' = event_cache /\ inserted' = inserted)

\* Every event the external lookup has handed to a call under way covers the
\* height that call asked for.
LookupsCover ==
    \A t \in Tasks :
       get_event[t] # NoEvent => EventCovers(get_event[t], get_height[t])

C28_WitnessError ==
    \E t \in Tasks :
       /\ get_pc[t] = "failed"
       /\ get_result[t] = GetErr
       /\ event_cache # {}

\* fetch_da_challenge_guest_data has returned a bundle.
BundleAssembled ==
    /\ host_pc \notin {"idle", "fetch"}
    /\ first_blobstream_attestation # NoAttestation

\* C21: in every bundle fetch_da_challenge_guest_data assembles,
\* index_blob_proof_data is present if and only if challenged_blob differs
\* from index_blob.
C21_ProofDataIffNotDirect ==
    BundleAssembled => (index_blob_proof_data # None <=> challenged_blob # index_blob)

\* C22: on a bundle that fetch_da_challenge_guest_data returned, the engine
\* never aborts on a missing block_proofs entry or a missing share-proof key
\* and never returns MissingIndexBlobData.
C22_BundleHasAllProofs ==
    BundleAssembled
    => (/\ panic_msg \notin {"no block proof for key", "no share proof for key"}
        /\ result # InputError("MissingIndexBlobData"))

\* C23: every view call the engine makes was preflighted by the host into the
\* committed EVM state: verifyAttestation for the first attestation and for
\* each entry of block_proofs, and the read of the bridge's head height.
C23_ViewCallsPreflighted ==
    /\ host_pc \in {"prove", "proving"}
          => \A a \in {first_blobstream_attestation}
                       \cup {block_proofs[h].blobstream_attestation :
                               h \in DOMAIN block_proofs} :
                VerifyAttestationCall(a) \in preflighted
    /\ \A i \in 1 .. Len(view_calls) : view_calls[i] \in preflighted

\* C24: the host probes latestHeight() first and reports R0 if the bridge
\* answers; only after a failure it probes latestBlock(), reporting Sp1 if the
\* bridge answers that and an error if not.  No second probe follows a first
\* probe that succeeded.
C24_ProbeOrder ==
    /\ Len(probes) <= 2
    /\ \A i \in 1 .. Len(probes) : probes[i].ok <=> probes[i].call \in bridge_functions
    /\ probes # << >> => probes[1].call = "latestHeight"
    /\ Len(probes) = 2 => (probes[2].call = "latestBlock" /\ ~probes[1].ok)
    /\ blobstream_impl = Some("R0") <=> (probes # << >> /\ probes[1].ok)
    /\ blobstream_impl = Some("Sp1") <=> (Len(probes) = 2 /\ probes[2].ok)
    /\ (Len(probes) = 2 /\ ~probes[2].ok)
          => (host_pc = "failed" /\ blobstream_impl = None)
    /\ (probes # << >> /\ ~probes[1].ok /\ host_pc \notin {"probe_block", "failed"})
          => Len(probes) = 2

\* A bridge that answers both calls: R0 after one probe.
C24_Witness ==
    /\ bridge_functions = {"latestHeight", "latestBlock"}
    /\ blobstream_impl = Some("R0")
    /\ Len(probes) = 1
    /\ host_pc = "proving"

\* A bridge that answers latestBlock() only: Sp1 after two probes.
C24_WitnessSp1 ==
    /\ bridge_functions = {"latestBlock"}
    /\ blobstream_impl = Some("Sp1")
    /\ Len(probes) = 2
    /\ host_pc = "proving"

\* A bridge that answers neither call.
C24_WitnessError ==
    /\ bridge_functions = {}
    /\ blobstream_impl = None
    /\ Len(probes) = 2
    /\ host_pc = "failed"

\* C27: for the data share at row r, column c of the top-left quadrant, whose
\* EDS index is r * eds_width + c, eds_index_to_ods returns r * (eds_width/2) + c.
C27_DataShareIndex ==
    published_span # None
    => LET eds_width == posted_blob[1].square_width
           r == posted_blob[1].index \div eds_width
           c == posted_blob[1].index % eds_width IN
       (r < eds_width \div 2 /\ c < eds_width \div 2)
          => published_span[1].start = r * (eds_width \div 2) + c

\* The height is outside the window the engine accepts: below the first
\* attested height or above the head of the bridge.
EngineOutOfBounds(h) ==
    \/ h < first_data_commitment_stored_event(bridge_events).start_block
    \/ h > latest_height

\* C29: for an index-blob height the engine classifies as out of bounds the
\* host returns a bundle and does not try to fetch a block proof for that
\* height, so a direct challenge of a blob above the bridge head ends in a
\* published fraud verdict.
C29_HostAgreesOnWindow ==
    (host_pc \notin {"idle", "fetch"} /\ EngineOutOfBounds(index_blob.height))
    => (/\ BundleAssembled
        /\ \A i \in 1 .. Len(fetch_attempts) : fetch_attempts[i] # index_blob.height
        /\ (/\ challenged_blob = index_blob
             /\ index_blob.height > latest_height
             /\ "latestHeight" \in bridge_functions
             /\ Finished)
              => (result.kind = "Fraud" /\ journal # None))

====
